---- MODULE Spec2Model ----
(***************************************************************************)
(* RTT Viewer: the session state of ui/log-engine.js, the import path of   *)
(* ui/log-io.js and the event handlers of the main app script.             *)
(*                                                                         *)
(* JavaScript is single threaded: every handler below is one atomic        *)
(* action.  The only suspension points are the awaits of importLogs (file  *)
(* dialog, file read, web file picker) and of exportLogs (save dialog,     *)
(* file write), modelled by the program counter pc; format is the format   *)
(* argument of the call that is suspended.                                 *)
(*                                                                         *)
(* Encodings.  A JavaScript string is a sequence of one-character strings; *)
(* a falsy string field of an entry (null, undefined or '') is <<>>.  A    *)
(* missing terminal of a streamed payload is NoTerminal.  The nullable     *)
(* fields activeTerminals and searchRe are records with a flag isNull.     *)
(* The `state` object of log-engine.js together with the rendered surface  *)
(* is handled as one record (see Cur) so that the statements of a handler  *)
(* compose as function applications in program order.  logArea is the      *)
(* sequence of data-id values of the rendered lines; the placeholder       *)
(* element of an empty surface is the empty sequence.  state.autoScroll    *)
(* only drives the scroll position and is left out.                        *)
(***************************************************************************)
EXTENDS Integers, Sequences, FiniteSets, TLC

\* ------------------------------------------------------------------ bounds
MaxLogs == 2        \* streamed appends stop when the store holds this many
MaxFeed == 2        \* entries the device feed delivers in one behaviour

VARIABLES logs, tags, activeTags, excludedTags, enabledLevels, searchRe,
          terminals, activeTerminals, searchMode, searchMatches,
          searchCurrent, logArea, searchInput, debounce, timers, pc, format,
          feedSeq,
          lastImport

vars == <<logs, tags, activeTags, excludedTags, enabledLevels, searchRe,
          terminals, activeTerminals, searchMode, searchMatches,
          searchCurrent, logArea, searchInput, debounce, timers, pc, format,
          feedSeq,
          lastImport>>

\* ---------------------------------------------------------------- strings
S_error == <<"e", "r", "r", "o", "r">>
S_warn == <<"w", "a", "r", "n">>
S_info == <<"i", "n", "f", "o">>
S_debug == <<"d", "e", "b", "u", "g">>
S_raw == <<"r", "a", "w">>
S_json == <<"j", "s", "o", "n">>
S_csv == <<"c", "s", "v">>
S_txt == <<"t", "x", "t">>
S_id == <<"i", "d">>
S_terminal == <<"t", "e", "r", "m", "i", "n", "a", "l">>
S_level == <<"l", "e", "v", "e", "l">>
S_tag == <<"t", "a", "g">>
S_message == <<"m", "e", "s", "s", "a", "g", "e">>

Levels == {S_error, S_warn, S_info, S_debug, S_raw}
MODES == <<"find", "regex", "filter">>
NoTerminal == -1

Upper == <<"A", "B", "C", "D", "E", "F", "G", "H", "I", "J", "K", "L", "M",
           "N", "O", "P", "Q", "R", "S", "T", "U", "V", "W", "X", "Y", "Z">>
Lower == <<"a", "b", "c", "d", "e", "f", "g", "h", "i", "j", "k", "l", "m",
           "n", "o", "p", "q", "r", "s", "t", "u", "v", "w", "x", "y", "z">>
ToLowerChar(c) ==
    IF \E i \in 1..26 : Upper[i] = c
    THEN Lower[CHOOSE i \in 1..26 : Upper[i] = c]
    ELSE c
toLowerCase(t) == [i \in 1..Len(t) |-> ToLowerChar(t[i])]
IsSpace(c) == c \in {" ", "\n", "\r", "\t"}
RECURSIVE trimStart(_)
trimStart(t) == IF t # <<>> /\ IsSpace(Head(t)) THEN trimStart(Tail(t)) ELSE t
RECURSIVE trimEnd(_)
trimEnd(t) ==
    IF t # <<>> /\ IsSpace(t[Len(t)]) THEN trimEnd(SubSeq(t, 1, Len(t) - 1)) ELSE t
trim(t) == trimEnd(trimStart(t))

\* ----------------------------------------------------------------- RegExp
\* A compiled pattern with the flags 'gi'.  The pattern language of this
\* model is: a literal character, an escaped character (backslash and the
\* character), the wildcard '.', and '(' which never finds its ')' in the
\* search texts used here, so that the constructor throws.  source is the
\* sequence of compiled atoms, lastIndex the 0-based scan position that
\* test() keeps between calls.
NullRe == [isNull |-> TRUE, source |-> <<>>, lastIndex |-> 0]
Meta == {".", "*", "+", "?", "^", "$", "{", "}", "(", ")", "|", "[", "]", "\\"}
\* val.replace(/[.*+?^${}()|[\]\\]/g, '\\$&')
RECURSIVE EscapeRegExp(_)
EscapeRegExp(t) ==
    IF t = <<>> THEN <<>>
    ELSE IF Head(t) \in Meta
         THEN <<"\\", Head(t)>> \o EscapeRegExp(Tail(t))
         ELSE <<Head(t)>> \o EscapeRegExp(Tail(t))
RECURSIVE Atoms(_)
Atoms(src) ==
    IF src = <<>> THEN <<>>
    ELSE IF Head(src) = "\\" /\ Len(src) >= 2
         THEN <<[kind |-> "lit", ch |-> src[2]]>> \o Atoms(Tail(Tail(src)))
         ELSE IF Head(src) = "."
              THEN <<[kind |-> "any", ch |-> "."]>> \o Atoms(Tail(src))
              ELSE IF Head(src) = "("
                   THEN <<[kind |-> "open", ch |-> "("]>> \o Atoms(Tail(src))
                   ELSE <<[kind |-> "lit", ch |-> Head(src)]>> \o Atoms(Tail(src))
\* new RegExp(src, 'gi') throws a SyntaxError on an unterminated group.
Compiles(src) == \A i \in 1..Len(Atoms(src)) : Atoms(src)[i].kind # "open"
NewRegExp(src) == [isNull |-> FALSE, source |-> Atoms(src), lastIndex |-> 0]
MatchAt(re, text, i) ==
    /\ i + Len(re.source) <= Len(text)
    /\ \A k \in 1..Len(re.source) :
          IF re.source[k].kind = "any"
          THEN text[i + k] \notin {"\n", "\r"}
          ELSE ToLowerChar(text[i + k]) = ToLowerChar(re.source[k].ch)
\* RegExp.prototype.test for a global pattern: scan from lastIndex; on
\* success lastIndex moves behind the match, on failure it returns to 0.
RegExpTest(re, text) ==
    LET Found(hits) ==
            IF hits = {}
            THEN [ok |-> FALSE, re |-> [re EXCEPT !.lastIndex = 0]]
            ELSE LET i == CHOOSE h \in hits : \A g \in hits : h <= g
                 IN  [ok |-> TRUE,
                      re |-> [re EXCEPT !.lastIndex = i + Len(re.source)]]
    IN  Found({i \in re.lastIndex..Len(text) : MatchAt(re, text, i)})
\* String.prototype.replace with a global pattern leaves lastIndex at 0.
AfterReplace(re) == IF re.isNull THEN re ELSE [re EXCEPT !.lastIndex = 0]

\* ------------------------------------------------------------ log-engine
AllTerminals == [isNull |-> TRUE, elems |-> {}]
NoTerminals == [x \in {} |-> 0]

\* export const state = {...} and the empty render surface.
InitState ==
    [logs |-> <<>>, tags |-> {}, activeTags |-> {}, excludedTags |-> {},
     enabledLevels |-> Levels, searchRe |-> NullRe,
     terminals |-> NoTerminals, activeTerminals |-> AllTerminals,
     searchMode |-> "find", searchMatches |-> <<>>, searchCurrent |-> -1,
     logArea |-> <<>>]

\* The state object as it is when a handler starts.
Cur ==
    [logs |-> logs, tags |-> tags, activeTags |-> activeTags,
     excludedTags |-> excludedTags, enabledLevels |-> enabledLevels,
     searchRe |-> searchRe, terminals |-> terminals,
     activeTerminals |-> activeTerminals, searchMode |-> searchMode,
     searchMatches |-> searchMatches, searchCurrent |-> searchCurrent,
     logArea |-> logArea]

\* The state object as a handler leaves it.
Becomes(s) ==
    /\ logs' = s.logs
    /\ tags' = s.tags
    /\ activeTags' = s.activeTags
    /\ excludedTags' = s.excludedTags
    /\ enabledLevels' = s.enabledLevels
    /\ searchRe' = s.searchRe
    /\ terminals' = s.terminals
    /\ activeTerminals' = s.activeTerminals
    /\ searchMode' = s.searchMode
    /\ searchMatches' = s.searchMatches
    /\ searchCurrent' = s.searchCurrent
    /\ logArea' = s.logArea

\* e.terminal ?? 0
TermOf(e) == IF e.terminal = NoTerminal THEN 0 ELSE e.terminal

\* matches(e): the result, and the state the call leaves behind (test()
\* moves the scan position of the shared pattern).
matches(e, s) ==
    IF e.level \notin s.enabledLevels THEN [ok |-> FALSE, s |-> s]
    ELSE IF e.tag # <<>> /\ e.tag \in s.excludedTags THEN [ok |-> FALSE, s |-> s]
    ELSE IF s.activeTags # {} /\ e.tag \notin s.activeTags
         THEN [ok |-> FALSE, s |-> s]
    ELSE LET Tested(r) ==
                 [ok |-> /\ r.ok
                         /\ \/ s.activeTerminals.isNull
                            \/ TermOf(e) \in s.activeTerminals.elems,
                  s |-> [s EXCEPT !.searchRe = r.re]]
         IN  Tested(IF s.searchMode = "filter" /\ ~s.searchRe.isNull
                    THEN RegExpTest(s.searchRe, e.raw)
                    ELSE [ok |-> TRUE, re |-> s.searchRe])

\* renderLine(e): msg.replace(state.searchRe, ...) rewinds the pattern.
renderLine(e, s) == [s EXCEPT !.searchRe = AfterReplace(@)]

\* state.logs.filter(matches): the visible entries in store order.
RECURSIVE FilterMatches(_, _)
FilterMatches(ls, s) ==
    IF ls = <<>> THEN [vis |-> <<>>, s |-> s]
    ELSE LET Kept(m) ==
                 LET rest == FilterMatches(Tail(ls), m.s)
                 IN  [vis |-> IF m.ok THEN <<Head(ls)>> \o rest.vis
                                      ELSE rest.vis,
                      s |-> rest.s]
         IN  Kept(matches(Head(ls), s))

RECURSIVE RenderAll(_, _)
RenderAll(ls, s) ==
    IF ls = <<>> THEN s ELSE RenderAll(Tail(ls), renderLine(Head(ls), s))

Ids(ls) == [i \in 1..Len(ls) |-> ls[i].id]

\* rebuild(logArea)
rebuild(s) ==
    LET Shown(f) == [RenderAll(f.vis, f.s) EXCEPT !.logArea = Ids(f.vis)]
    IN  Shown(FilterMatches(s.logs, s))

\* updateSearchMatches()
RECURSIVE CollectMatches(_, _)
CollectMatches(ls, s) ==
    IF ls = <<>> THEN s
    ELSE LET e == Head(ls)
             Pushed(m, t) ==
                 [m.s EXCEPT !.searchRe = t.re,
                             !.searchMatches =
                                 IF t.ok THEN Append(@, e.id) ELSE @]
             Passed(m) ==
                 Pushed(m, IF m.ok
                           THEN RegExpTest(m.s.searchRe,
                                           IF e.raw # <<>> THEN e.raw
                                                           ELSE e.message)
                           ELSE [ok |-> FALSE, re |-> m.s.searchRe])
         IN  CollectMatches(Tail(ls), Passed(matches(e, s)))
updateSearchMatches_NoFilterReturn(s) ==
    LET s0 == [s EXCEPT !.searchMatches = <<>>, !.searchCurrent = -1]
    IN  IF s0.searchRe.isNull
        THEN s0
        ELSE CollectMatches(s0.logs, s0)
updateSearchMatches(s) ==
    LET s0 == [s EXCEPT !.searchMatches = <<>>, !.searchCurrent = -1]
    IN  IF s0.searchRe.isNull \/ s0.searchMode = "filter"
        THEN s0
        ELSE CollectMatches(s0.logs, s0)

\* setSearchMode(mode)
setSearchMode(mode, s) == [s EXCEPT !.searchMode = mode]

\* The three index statements that appendEntry and the bulk load of
\* importLogs both execute after logs.push(e).
AddTag(tg, e) == IF e.tag # <<>> THEN tg \cup {e.tag} ELSE tg
AddTerminal_NoIncrement(tm, e) ==
    LET t == TermOf(e)
    IN  IF t \in DOMAIN tm
        THEN tm
        ELSE [x \in DOMAIN tm \cup {t} |-> IF x = t THEN 1 ELSE tm[x]]
AddTerminal(tm, e) ==
    LET t == TermOf(e)
    IN  IF t \in DOMAIN tm
        THEN [tm EXCEPT ![t] = @ + 1]
        ELSE [x \in DOMAIN tm \cup {t} |-> IF x = t THEN 1 ELSE tm[x]]

\* appendEntry(e, logArea): the state afterwards and the two flags.
appendEntry(e, s) ==
    LET Shown(m) ==
            IF m.ok
            THEN [renderLine(e, m.s) EXCEPT !.logArea = Append(@, e.id)]
            ELSE m.s
    IN  [isNewTag |-> e.tag # <<>> /\ e.tag \notin s.tags,
         isNewTerminal |-> TermOf(e) \notin DOMAIN s.terminals,
         s |-> Shown(matches(e, [s EXCEPT !.logs = Append(@, e),
                                         !.tags = AddTag(@, e),
                                         !.terminals = AddTerminal(@, e)]))]

\* clearLogs(logArea)
clearLogs_KeepTerminals(s) ==
    [s EXCEPT !.logs = <<>>, !.tags = {}, !.activeTags = {},
              !.excludedTags = {},
              !.activeTerminals = AllTerminals, !.searchRe = NullRe,
              !.searchMatches = <<>>, !.searchCurrent = -1,
              !.logArea = <<>>]
clearLogs_ResetLevels(s) ==
    [s EXCEPT !.logs = <<>>, !.tags = {}, !.activeTags = {},
              !.excludedTags = {}, !.terminals = NoTerminals,
              !.activeTerminals = AllTerminals, !.searchRe = NullRe,
              !.searchMatches = <<>>, !.searchCurrent = -1,
              !.enabledLevels = Levels, !.logArea = <<>>]
clearLogs_KeepPointer(s) ==
    [s EXCEPT !.logs = <<>>, !.tags = {}, !.activeTags = {},
              !.excludedTags = {}, !.terminals = NoTerminals,
              !.activeTerminals = AllTerminals, !.searchRe = NullRe,
              !.searchMatches = <<>>, !.logArea = <<>>]
clearLogs(s) ==
    [s EXCEPT !.logs = <<>>, !.tags = {}, !.activeTags = {},
              !.excludedTags = {}, !.terminals = NoTerminals,
              !.activeTerminals = AllTerminals, !.searchRe = NullRe,
              !.searchMatches = <<>>, !.searchCurrent = -1,
              !.logArea = <<>>]

\* setSearch(val)
setSearch_KeepOnError(val, s) ==
    [s EXCEPT !.searchRe =
        IF val = <<>> THEN NullRe
        ELSE IF Compiles(val) THEN NewRegExp(val) ELSE @]
setSearch(val, s) ==
    [s EXCEPT !.searchRe =
        IF val # <<>> /\ Compiles(val) THEN NewRegExp(val) ELSE NullRe]

\* ----------------------------------------------------------------- log-io
\* A JavaScript value of a candidate object: absent (undefined), null, a
\* number or a string.
Undef == [t |-> "undef", n |-> 0, s |-> <<>>]
JNull == [t |-> "null", n |-> 0, s |-> <<>>]
Num(n) == [t |-> "num", n |-> n, s |-> <<>>]
Str(s) == [t |-> "str", n |-> 0, s |-> s]
Truthy(v) == (v.t = "num" /\ v.n # 0) \/ (v.t = "str" /\ v.s # <<>>)
Nullish(v) == v.t \in {"undef", "null"}
\* a || b || ...
Or2(a, b) == IF Truthy(a) THEN a ELSE b

Digits == <<"0", "1", "2", "3", "4", "5", "6", "7", "8", "9">>
IsDigit(c) == \E i \in 1..10 : Digits[i] = c
DigitVal(c) == (CHOOSE i \in 1..10 : Digits[i] = c) - 1
RECURSIVE DecimalValue(_, _)
DecimalValue(t, acc) ==
    IF t = <<>> THEN acc ELSE DecimalValue(Tail(t), 10 * acc + DigitVal(Head(t)))
NaN == -2
\* Number(v) for the values above: a string converts after trimming, the
\* empty string to 0, a digit string to its value, any other text to NaN.
Number(v) ==
    IF v.t = "num" THEN v.n
    ELSE IF v.t = "null" THEN 0
    ELSE IF v.t = "undef" THEN NaN
    ELSE LET d == trim(v.s)
         IN  IF \A i \in 1..Len(d) : IsDigit(d[i]) THEN DecimalValue(d, 0) ELSE NaN
\* parseInt(text) for a text that starts with digits.
RECURSIVE TakeDigits(_)
TakeDigits(t) ==
    IF t # <<>> /\ IsDigit(Head(t)) THEN <<Head(t)>> \o TakeDigits(Tail(t)) ELSE <<>>
parseInt(t) == DecimalValue(TakeDigits(t), 0)

\* A candidate object; isObject is FALSE for null, on which a property read
\* throws.
Obj(id, terminal, ts, level, tag, message, raw) ==
    [isObject |-> TRUE, id |-> id, terminal |-> terminal,
     device_timestamp |-> ts, level |-> level, tag |-> tag,
     message |-> message, raw |-> raw]
NullObj == [Obj(Undef, Undef, Undef, Undef, Undef, Undef, Undef)
               EXCEPT !.isObject = FALSE]

\* normalize(obj): ok is FALSE when the call throws (a property read on
\* null, toLowerCase on a truthy level that is not a string).
normalize_KeepLevel(obj, s) ==
    IF ~obj.isObject \/ (Truthy(obj.level) /\ obj.level.t # "str")
    THEN [ok |-> FALSE, entry |-> <<>>]
    ELSE LET level == toLowerCase(Or2(obj.level, Str(S_raw)).s)
         IN  [ok |-> TRUE,
              entry |->
                [id |-> IF ~Nullish(obj.id) THEN Number(obj.id) ELSE Len(s.logs),
                 terminal |-> IF ~Nullish(obj.terminal)
                              THEN Number(obj.terminal) ELSE 0,
                 device_timestamp |-> Or2(obj.device_timestamp, JNull).s,
                 level |-> level,
                 tag |-> Or2(obj.tag, JNull).s,
                 message |-> Or2(obj.message, Or2(obj.raw, Str(<<>>))).s,
                 raw |-> Or2(obj.raw, Or2(obj.message, Str(<<>>))).s]]
normalize(obj, s) ==
    IF ~obj.isObject \/ (Truthy(obj.level) /\ obj.level.t # "str")
    THEN [ok |-> FALSE, entry |-> <<>>]
    ELSE LET level == toLowerCase(Or2(obj.level, Str(S_raw)).s)
         IN  [ok |-> TRUE,
              entry |->
                [id |-> IF ~Nullish(obj.id) THEN Number(obj.id) ELSE Len(s.logs),
                 terminal |-> IF ~Nullish(obj.terminal)
                              THEN Number(obj.terminal) ELSE 0,
                 device_timestamp |-> Or2(obj.device_timestamp, JNull).s,
                 level |-> IF level \in Levels THEN level ELSE S_raw,
                 tag |-> Or2(obj.tag, JNull).s,
                 message |-> Or2(obj.message, Or2(obj.raw, Str(<<>>))).s,
                 raw |-> Or2(obj.raw, Or2(obj.message, Str(<<>>))).s]]

\* arr.map(normalize), lines.map(... normalize(obj)): the first throwing
\* call aborts the whole map.
RECURSIVE MapNormalize(_, _)
MapNormalize(objs, s) ==
    IF objs = <<>> THEN [ok |-> TRUE, entries |-> <<>>]
    ELSE LET Joined(h, r) ==
                 IF h.ok /\ r.ok
                 THEN [ok |-> TRUE, entries |-> <<h.entry>> \o r.entries]
                 ELSE [ok |-> FALSE, entries |-> <<>>]
         IN  Joined(normalize(Head(objs), s), MapNormalize(Tail(objs), s))

\* parseJSON(text).  json is what JSON.parse(text) returns: ok FALSE when
\* it throws, isArray and elems otherwise.
parseJSON(json, s) ==
    IF ~json.ok \/ ~json.isArray
    THEN [ok |-> FALSE, entries |-> <<>>]
    ELSE MapNormalize(json.elems, s)

\* splitCSVLines(text): the body of the loop for the character ch, on the
\* loop variables lines, current and inQuotes.
SplitCSVStep(st, ch) ==
    IF ch = "\""
    THEN [st EXCEPT !.current = Append(@, ch), !.inQuotes = ~@]
    ELSE IF ch = "\n" /\ ~st.inQuotes
    THEN [st EXCEPT !.lines = Append(@, st.current), !.current = <<>>]
    ELSE IF ch = "\r" /\ ~st.inQuotes
    THEN st
    ELSE [st EXCEPT !.current = Append(@, ch)]
\* The loop over the characters lo..hi: the first half of the range, and
\* on the loop variables it leaves (a value once inQuotes is read) the
\* second half.
RECURSIVE SplitCSVLoop(_, _, _, _)
SplitCSVLoop(text, lo, hi, st) ==
    IF lo > hi THEN st
    ELSE IF lo = hi THEN SplitCSVStep(st, text[lo])
    ELSE LET Second(s1) ==
                 IF s1.inQuotes \in BOOLEAN
                 THEN SplitCSVLoop(text, ((lo + hi) \div 2) + 1, hi, s1)
                 ELSE s1
         IN  Second(SplitCSVLoop(text, lo, (lo + hi) \div 2, st))
splitCSVLines(text) ==
    LET Done(st) ==
            IF st.current # <<>> THEN Append(st.lines, st.current) ELSE st.lines
    IN  Done(SplitCSVLoop(text, 1, Len(text),
                          [lines |-> <<>>, current |-> <<>>, inQuotes |-> FALSE]))

\* parseCSVRow(line): the body of the loop at index k (1-based), on the
\* loop variables values, current, inQuotes and i; an escaped quote
\* advances i past the next character, which the loop then does not visit.
ParseRowStep(line, st, k) ==
    IF k # st.i THEN st
    ELSE LET ch == line[k]
         IN  IF ch = "\""
             THEN IF st.inQuotes /\ k + 1 <= Len(line) /\ line[k + 1] = "\""
                  THEN [st EXCEPT !.current = Append(@, "\""), !.i = k + 2]
                  ELSE [st EXCEPT !.inQuotes = ~@, !.i = k + 1]
             ELSE IF ch = "," /\ ~st.inQuotes
             THEN [st EXCEPT !.values = Append(@, st.current),
                             !.current = <<>>, !.i = k + 1]
             ELSE [st EXCEPT !.current = Append(@, ch), !.i = k + 1]
\* The loop over the indices lo..hi, in two halves as above.
RECURSIVE ParseRowLoop(_, _, _, _)
ParseRowLoop(line, lo, hi, st) ==
    IF lo > hi THEN st
    ELSE IF lo = hi THEN ParseRowStep(line, st, lo)
    ELSE LET Second(s1) ==
                 IF s1.inQuotes \in BOOLEAN
                 THEN ParseRowLoop(line, ((lo + hi) \div 2) + 1, hi, s1)
                 ELSE s1
         IN  Second(ParseRowLoop(line, lo, (lo + hi) \div 2, st))
parseCSVRow(line) ==
    LET Done(st) == Append(st.values, st.current)
    IN  Done(ParseRowLoop(line, 1, Len(line),
                          [values |-> <<>>, current |-> <<>>,
                           inQuotes |-> FALSE, i |-> 1]))

\* obj[col] = vals[i] ?? '' for every header column: the value of key k
\* (the last column of that name wins).
CSVField(header, vals, k) ==
    LET cols == {i \in 1..Len(header) : header[i] = k}
    IN  IF cols = {} THEN Undef
        ELSE LET i == CHOOSE c \in cols : \A d \in cols : d <= c
             IN  IF i <= Len(vals) THEN Str(vals[i]) ELSE Str(<<>>)
CSVObj(header, vals) ==
    Obj(CSVField(header, vals, S_id), CSVField(header, vals, S_terminal),
        CSVField(header, vals, <<"d", "e", "v", "i", "c", "e", "_", "t", "i",
                                 "m", "e", "s", "t", "a", "m", "p">>),
        CSVField(header, vals, S_level), CSVField(header, vals, S_tag),
        CSVField(header, vals, S_message), CSVField(header, vals, S_raw))

NonBlank(l) == trim(l) # <<>>

\* parseCSV(text)
parseCSV(text, s) ==
    LET Rows(header, rows) ==
            MapNormalize([i \in 1..Len(rows) |->
                             CSVObj(header, parseCSVRow(rows[i]))], s)
        Lines(lines) ==
            IF Len(lines) < 2 THEN [ok |-> FALSE, entries |-> <<>>]
            ELSE Rows(parseCSVRow(lines[1]), SelectSeq(Tail(lines), NonBlank))
    IN  Lines(splitCSVLines(text))

\* ------------------------------------------------------ parseText (regex)
IsLetter(c) == \E i \in 1..26 : Upper[i] = c \/ Lower[i] = c
IsWord(c) == IsLetter(c) \/ IsDigit(c) \/ c = "_"
IsTagChar(c) == IsWord(c) \/ c \in {".", "-"}
IsStampChar(c) == IsDigit(c) \/ c \in {":", ".", ","}
\* The regular expressions of parseText are sequences of pieces: a literal
\* character, one character of a class, a greedy X* or X+ over a class, and
\* an optional group.  The classes:
InClass(cls, c) ==
    CASE cls = "\\s" -> IsSpace(c)
      [] cls = "\\d" -> IsDigit(c)
      [] cls = "\\w" -> IsWord(c)
      [] cls = "[\\w._-]" -> IsTagChar(c)
      [] cls = "[\\d:.,]" -> IsStampChar(c)
      [] cls = "[^>]" -> c # ">"
Chr(x) == [k |-> "chr", x |-> x]
One(cls) == [k |-> "one", x |-> cls]
Star(cls) == [k |-> "star", x |-> cls]
Plus(cls) == [k |-> "plus", x |-> cls]
Opt(sub) == [k |-> "opt", sub |-> sub]
At(t, i) == IF i >= 1 /\ i <= Len(t) THEN t[i] ELSE ""
\* The rest of t from position i on.
From(t, i) == SubSeq(t, i, Len(t))
\* The position behind the longest run of characters of the class that
\* starts at position i of t.
RECURSIVE Skip(_, _, _)
Skip(t, i, cls) ==
    IF i >= 1 /\ i <= Len(t) /\ InClass(cls, t[i]) THEN Skip(t, i + 1, cls) ELSE i
\* Scan matches the pieces one after the other from position i of t on;
\* marks[k] is the position behind piece k.  Step is the position behind one
\* piece, 0 when the piece does not match.  In the patterns below a piece
\* that has matched greedily never has to give characters back for the rest
\* to match, so the scan finds the match the engine reports.
RECURSIVE Scan(_, _, _), Step(_, _, _)
Scan(t, i, pieces) ==
    IF pieces = <<>> THEN [ok |-> TRUE, marks |-> <<>>]
    ELSE LET Rest(j) ==
                 IF j = 0 THEN [ok |-> FALSE, marks |-> <<>>]
                 ELSE LET r == Scan(t, j, Tail(pieces))
                      IN  [ok |-> r.ok, marks |-> <<j>> \o r.marks]
         IN  Rest(Step(t, i, Head(pieces)))
Step(t, i, p) ==
    CASE p.k = "chr" -> IF At(t, i) = p.x THEN i + 1 ELSE 0
      [] p.k = "one" ->
           IF i <= Len(t) /\ InClass(p.x, t[i]) THEN i + 1 ELSE 0
      [] p.k = "star" -> Skip(t, i, p.x)
      [] p.k = "plus" ->
           LET Behind(j) == IF j > i THEN j ELSE 0 IN Behind(Skip(t, i, p.x))
      [] p.k = "opt" ->
           LET Taken(r) == IF r.ok THEN r.marks[Len(r.marks)] ELSE i
           IN  Taken(Scan(t, i, p.sub))

\* text.replace(/\r\n/g, '\n').replace(/\r/g, '\n'): a carriage return in
\* front of a line feed goes, every other one becomes a line feed.
NormalizeEOL(t) ==
    LET replaced ==
            [i \in 1..Len(t) |->
                IF t[i] # "\r" THEN t[i]
                ELSE IF i < Len(t) /\ t[i + 1] = "\n" THEN "" ELSE "\n"]
        Kept(c) == c # ""
    IN  SelectSeq(replaced, Kept)
\* text.split('\n'): the pieces between the line feeds, one more than
\* there are line feeds.
SplitLines(t) ==
    LET feeds == {i \in 1..Len(t) : t[i] = "\n"}
        Feed(k) == CHOOSE i \in feeds : Cardinality({j \in feeds : j < i}) = k - 1
        First(k) == IF k = 1 THEN 1 ELSE Feed(k - 1) + 1
        Last(k) == IF k = Cardinality(feeds) + 1 THEN Len(t) ELSE Feed(k) - 1
    IN  [k \in 1..(Cardinality(feeds) + 1) |-> SubSeq(t, First(k), Last(k))]

NoMatch == [ok |-> FALSE]
\* /^(\d{2})>\s(.*)$/
rttPrefix == <<One("\\d"), One("\\d"), Chr(">"), One("\\s")>>
MatchRttPrefix(line) ==
    LET Groups(m) ==
            IF m.ok
            THEN [ok |-> TRUE, g1 |-> SubSeq(line, 1, 2),
                  g2 |-> From(line, m.marks[4])]
            ELSE NoMatch
    IN  Groups(Scan(line, 1, rttPrefix))

\* /^\[(\d{2}:\d{2}:\d{2}\.\d{3}(?:,\d{3})?)\]\s*<(\w+)>\s*([\w._-]+):
\*  \s*(.*)$/
zephyr ==
    <<Chr("["), One("\\d"), One("\\d"), Chr(":"), One("\\d"), One("\\d"),
      Chr(":"), One("\\d"), One("\\d"), Chr("."), One("\\d"), One("\\d"),
      One("\\d"), Opt(<<Chr(","), One("\\d"), One("\\d"), One("\\d")>>),
      Chr("]"), Star("\\s"), Chr("<"), Plus("\\w"), Chr(">"), Star("\\s"),
      Plus("[\\w._-]"), Chr(":"), Star("\\s")>>
MatchZephyr(c) ==
    LET Groups(m) ==
            IF m.ok
            THEN [ok |-> TRUE, g1 |-> SubSeq(c, 2, m.marks[14] - 1),
                  g2 |-> SubSeq(c, m.marks[17], m.marks[18] - 1),
                  g3 |-> SubSeq(c, m.marks[20], m.marks[21] - 1),
                  g4 |-> From(c, m.marks[23])]
            ELSE NoMatch
    IN  Groups(Scan(c, 1, zephyr))

\* /^<(\w+)>(.*)$/
tagged == <<Chr("<"), Plus("\\w"), Chr(">")>>
MatchTagged(c) ==
    LET Groups(m) ==
            IF m.ok
            THEN [ok |-> TRUE, g1 |-> SubSeq(c, 2, m.marks[2] - 1),
                  g2 |-> From(c, m.marks[3])]
            ELSE NoMatch
    IN  Groups(Scan(c, 1, tagged))

\* /^\s*(\d+)?\s*(?:T(\d+))?\s*([\d:.,]+)?\s*\[(\w+)\]\s*(?:<([^>]+)>)?
\*  \s*(.*)$/
\* (\d+)? and ([\d:.,]+)? are greedy runs that may be empty; an optional
\* group that did not take part is <<>> (undefined).
exportRe ==
    <<Star("\\s"), Star("\\d"), Star("\\s"),
      Opt(<<Chr("T"), Plus("\\d")>>), Star("\\s"), Star("[\\d:.,]"),
      Star("\\s"), Chr("["), Plus("\\w"), Chr("]"), Star("\\s"),
      Opt(<<Chr("<"), Plus("[^>]"), Chr(">")>>), Star("\\s")>>
MatchExport(c) ==
    LET Groups(m) ==
            IF m.ok
            THEN [ok |-> TRUE,
                  g1 |-> SubSeq(c, m.marks[1], m.marks[2] - 1),
                  g2 |-> SubSeq(c, m.marks[3] + 1, m.marks[4] - 1),
                  g3 |-> SubSeq(c, m.marks[5], m.marks[6] - 1),
                  g4 |-> SubSeq(c, m.marks[8], m.marks[9] - 1),
                  g5 |-> SubSeq(c, m.marks[11] + 1, m.marks[12] - 2),
                  g6 |-> From(c, m.marks[13])]
            ELSE NoMatch
    IN  Groups(Scan(c, 1, exportRe))

\* The body of the map callback of parseText for one line: the candidate
\* handed to normalize and the value of the counter id afterwards.
TextCandidate(line, id) ==
    LET Fallback(terminal, content) ==
            [obj |-> Obj(Num(id), Num(terminal), Undef, Str(S_raw), Undef,
                         Str(content), Str(line)),
             id |-> id + 1]
        Export(terminal, content, m) ==
            IF m.ok
            THEN [obj |-> Obj(IF m.g1 # <<>> THEN Num(parseInt(m.g1))
                                             ELSE Num(id),
                              IF m.g2 # <<>> THEN Num(parseInt(m.g2))
                                             ELSE Num(terminal),
                              Or2(Str(m.g3), JNull), Str(m.g4),
                              Or2(Str(m.g5), JNull),
                              Or2(Str(m.g6), Str(<<>>)), Str(line)),
                  id |-> IF m.g1 # <<>> THEN id ELSE id + 1]
            ELSE Fallback(terminal, content)
        Tagged(terminal, content, tm) ==
            IF tm.ok
            THEN [obj |-> Obj(Num(id), Num(terminal), Undef, Str(S_raw),
                              Str(tm.g1), Str(trim(tm.g2)), Str(line)),
                  id |-> id + 1]
            ELSE Export(terminal, content, MatchExport(content))
        Zephyr(terminal, content, zm) ==
            IF zm.ok
            THEN [obj |-> Obj(Num(id), Num(terminal), Str(zm.g1), Str(zm.g2),
                              Str(zm.g3), Str(zm.g4), Str(line)),
                  id |-> id + 1]
            ELSE Tagged(terminal, content, MatchTagged(content))
        Content(terminal, content) ==
            Zephyr(terminal, content, MatchZephyr(content))
        Prefix(pm) ==
            Content(IF pm.ok THEN parseInt(pm.g1) ELSE 0,
                    IF pm.ok THEN pm.g2 ELSE line)
    IN  Prefix(MatchRttPrefix(line))

RECURSIVE TextCandidates(_, _)
TextCandidates(lines, id) ==
    IF lines = <<>> THEN <<>>
    ELSE LET Mapped(c) == <<c.obj>> \o TextCandidates(Tail(lines), c.id)
         IN  Mapped(TextCandidate(Head(lines), id))

\* parseText(text)
parseText(text, s) ==
    LET lines == SelectSeq(SplitLines(NormalizeEOL(text)), NonBlank)
    IN  MapNormalize(TextCandidates(lines, 0), s)

\* ------------------------------------------------------------ input files
\* A file the user can pick: the extension of its path, its text, and what
\* JSON.parse returns for that text.
NotJSON == [ok |-> FALSE, isArray |-> FALSE, elems |-> <<>>]
JSONArray(elems) == [ok |-> TRUE, isArray |-> TRUE, elems |-> elems]
JSONObject == [ok |-> TRUE, isArray |-> FALSE, elems |-> <<>>]
File(ext, text, json) == [ext |-> ext, text |-> text, json |-> json]
\* []
T_arr0 ==
    <<"[", "]">>
\* {}
T_obj ==
    <<"{", "}">>
\* [{
T_bad ==
    <<"[", "{">>
\* [{"level":"INFO","tag":"a","message":"ba"},{"terminal":1,"level":"inf","message":"ab"}]
T_json2 ==
    <<"[", "{", "\"", "l", "e", "v", "e", "l", "\"", ":", "\"", "I", "N",
      "F", "O", "\"", ",", "\"", "t", "a", "g", "\"", ":", "\"", "a",
      "\"", ",", "\"", "m", "e", "s", "s", "a", "g", "e", "\"", ":",
      "\"", "b", "a", "\"", "}", ",", "{", "\"", "t", "e", "r", "m",
      "i", "n", "a", "l", "\"", ":", "1", ",", "\"", "l", "e", "v",
      "e", "l", "\"", ":", "\"", "i", "n", "f", "\"", ",", "\"", "m",
      "e", "s", "s", "a", "g", "e", "\"", ":", "\"", "a", "b", "\"",
      "}", "]">>
\* [{"level":5}]
T_jsonNum ==
    <<"[", "{", "\"", "l", "e", "v", "e", "l", "\"", ":", "5", "}", "]">>
\* id,level
T_csvHdr ==
    <<"i", "d", ",", "l", "e", "v", "e", "l">>
\* id,level\n  \n
T_csvBlank ==
    <<"i", "d", ",", "l", "e", "v", "e", "l", "\n", " ", " ", "\n">>
\* id,terminal,level,tag,message\n3,1,WARN,,ab
T_csv1 ==
    <<"i", "d", ",", "t", "e", "r", "m", "i", "n", "a", "l", ",", "l",
      "e", "v", "e", "l", ",", "t", "a", "g", ",", "m", "e", "s",
      "s", "a", "g", "e", "\n", "3", ",", "1", ",", "W", "A", "R",
      "N", ",", ",", "a", "b">>
\* 01> <b>ab\n[00:00:01.000] <inf> a: ba
T_txt2 ==
    <<"0", "1", ">", " ", "<", "b", ">", "a", "b", "\n", "[", "0", "0",
      ":", "0", "0", ":", "0", "1", ".", "0", "0", "0", "]", " ",
      "<", "i", "n", "f", ">", " ", "a", ":", " ", "b", "a">>

Files ==
    {File(S_json, T_arr0, JSONArray(<<>>)),
     File(S_json, T_obj, JSONObject),
     File(S_json, T_bad, NotJSON),
     File(S_json, T_json2,
          JSONArray(<<Obj(Undef, Undef, Undef, Str(<<"I", "N", "F", "O">>),
                          Str(<<"a">>), Str(<<"b", "a">>), Undef),
                      Obj(Undef, Num(1), Undef, Str(<<"i", "n", "f">>),
                          Undef, Str(<<"a", "b">>), Undef)>>)),
     File(S_json, T_jsonNum,
          JSONArray(<<Obj(Undef, Undef, Undef, Num(5), Undef, Undef, Undef)>>)),
     File(S_csv, T_csvHdr, NotJSON),
     File(S_csv, T_csvBlank, NotJSON),
     File(S_csv, T_csv1, NotJSON),
     File(S_txt, T_txt2, NotJSON),
     File(S_txt, <<>>, NotJSON)}

\* detectFormat(path, _text)
detectFormat(file) ==
    LET ext == toLowerCase(file.ext)
    IN  IF ext = S_json THEN "json" ELSE IF ext = S_csv THEN "csv" ELSE "txt"

\* String.prototype.includes
Includes(t, sub) ==
    \E i \in 0..(Len(t) - Len(sub)) : SubSeq(t, i + 1, i + Len(sub)) = sub
\* detectFormatFromContent(text)
detectFormatFromContent(file) ==
    LET trimmed == trimStart(file.text)
        firstLine == SplitLines(trimmed)[1]
    IN  IF At(trimmed, 1) \in {"[", "{"} /\ file.json.ok THEN "json"
        ELSE IF Includes(firstLine, <<"i", "d", ",">>) /\ Includes(firstLine, S_level)
             THEN "csv"
             ELSE "txt"

\* parsers[format](text)
parser(fmt, file, s) ==
    CASE fmt = "json" -> parseJSON(file.json, s)
      [] fmt = "csv" -> parseCSV(file.text, s)
      [] fmt = "txt" -> parseText(file.text, s)
\* The keys of the tables FORMATS and parsers; a format argument that is
\* null (or missing) is NullFormat.
FORMATS == {"json", "csv", "txt"}
parsers == {"json", "csv", "txt"}
NullFormat == ""

\* ------------------------------------------------------------- importLogs
\* What the call of importLogs that ended in the step just taken did: how
\* it ended, the batch the parser returned, and how often it invoked each
\* callback and rebuild.  After any other step the record is NoImport.
ImportRecord(result, entries, calls) ==
    [result |-> result, entries |-> entries,
     onTagsChanged |-> calls.onTagsChanged,
     onTerminalsChanged |-> calls.onTerminalsChanged,
     onCountChanged |-> calls.onCountChanged, rebuilds |-> calls.rebuilds]
NoCalls ==
    [onTagsChanged |-> 0, onTerminalsChanged |-> 0, onCountChanged |-> 0,
     rebuilds |-> 0]
NoImport == ImportRecord("none", <<>>, NoCalls)

\* The bulk load loop of importLogs: acc carries the state and the two
\* flags newTags and newTerminals.
RECURSIVE BulkLoad_DropLast(_, _)
BulkLoad_DropLast(entries, acc) ==
    IF Len(entries) <= 1 THEN acc
    ELSE LET e == Head(entries)
             s == acc.s
         IN  BulkLoad_DropLast(Tail(entries),
                [s |-> [s EXCEPT !.logs = Append(@, e),
                                 !.tags = AddTag(@, e),
                                 !.terminals = AddTerminal(@, e)],
                 newTags |-> acc.newTags \/ (e.tag # <<>> /\ e.tag \notin s.tags),
                 newTerminals |-> acc.newTerminals
                                  \/ TermOf(e) \notin DOMAIN s.terminals])
RECURSIVE BulkLoad(_, _)
BulkLoad(entries, acc) ==
    IF entries = <<>> THEN acc
    ELSE LET e == Head(entries)
             s == acc.s
         IN  BulkLoad(Tail(entries),
                [s |-> [s EXCEPT !.logs = Append(@, e),
                                 !.tags = AddTag(@, e),
                                 !.terminals = AddTerminal(@, e)],
                 newTags |-> acc.newTags \/ (e.tag # <<>> /\ e.tag \notin s.tags),
                 newTerminals |-> acc.newTerminals
                                  \/ TermOf(e) \notin DOMAIN s.terminals])

\* The single rebuild and the callback invocations that follow the bulk
\* load: how often each one runs.
Callbacks_PerEntry(b) ==
    [onTagsChanged |-> Cardinality(b.s.tags),
     onTerminalsChanged |-> Cardinality(DOMAIN b.s.terminals),
     onCountChanged |-> Len(b.s.logs), rebuilds |-> Len(b.s.logs)]
Callbacks(b) ==
    [onTagsChanged |-> IF b.newTags THEN 1 ELSE 0,
     onTerminalsChanged |-> IF b.newTerminals THEN 1 ELSE 0,
     onCountChanged |-> 1, rebuilds |-> 1]

\* importLogs from the statement `const parser = parsers[format]` on: the
\* state afterwards and the record of the call ("threw" when the statement
\* `throw new Error('Unknown format')` ended it).
ImportText_ClearBeforeLength(fmt, file, s) ==
    LET Loaded(p, b) ==
            [s |-> rebuild(b.s),
             rec |-> ImportRecord("ok", p.entries, Callbacks(b))]
        Parsed(p) ==
            IF ~p.ok
            THEN [s |-> s, rec |-> ImportRecord("parse_error", <<>>, NoCalls)]
            ELSE IF Len(p.entries) = 0
            THEN [s |-> clearLogs(s), rec |-> ImportRecord("empty", <<>>, NoCalls)]
            ELSE Loaded(p, BulkLoad(p.entries,
                                    [s |-> clearLogs(s), newTags |-> FALSE,
                                     newTerminals |-> FALSE]))
    IN  IF fmt \notin parsers
        THEN [s |-> s, rec |-> ImportRecord("threw", <<>>, NoCalls)]
        ELSE Parsed(parser(fmt, file, s))
ImportText_ClearBeforeParse(fmt, file, s) ==
    LET Loaded(p, b) ==
            [s |-> rebuild(b.s),
             rec |-> ImportRecord("ok", p.entries, Callbacks(b))]
        Parsed(p) ==
            IF ~p.ok
            THEN [s |-> clearLogs(s), rec |-> ImportRecord("parse_error", <<>>, NoCalls)]
            ELSE IF Len(p.entries) = 0
            THEN [s |-> s, rec |-> ImportRecord("empty", <<>>, NoCalls)]
            ELSE Loaded(p, BulkLoad(p.entries,
                                    [s |-> clearLogs(s), newTags |-> FALSE,
                                     newTerminals |-> FALSE]))
    IN  IF fmt \notin parsers
        THEN [s |-> s, rec |-> ImportRecord("threw", <<>>, NoCalls)]
        ELSE Parsed(parser(fmt, file, s))
ImportText(fmt, file, s) ==
    LET Loaded(p, b) ==
            [s |-> rebuild(b.s),
             rec |-> ImportRecord("ok", p.entries, Callbacks(b))]
        Parsed(p) ==
            IF ~p.ok
            THEN [s |-> s, rec |-> ImportRecord("parse_error", <<>>, NoCalls)]
            ELSE IF Len(p.entries) = 0
            THEN [s |-> s, rec |-> ImportRecord("empty", <<>>, NoCalls)]
            ELSE Loaded(p, BulkLoad(p.entries,
                                    [s |-> clearLogs(s), newTags |-> FALSE,
                                     newTerminals |-> FALSE]))
    IN  IF fmt \notin parsers
        THEN [s |-> s, rec |-> ImportRecord("threw", <<>>, NoCalls)]
        ELSE Parsed(parser(fmt, file, s))

\* importLogs from the statement `if (entries.length === 0)` on, for the
\* outcome p of the parser call.
ImportParsed(p, s) ==
    LET Loaded(b) ==
            [s |-> rebuild(b.s),
             rec |-> ImportRecord("ok", p.entries, Callbacks(b))]
    IN  IF ~p.ok
        THEN [s |-> s, rec |-> ImportRecord("parse_error", <<>>, NoCalls)]
        ELSE IF Len(p.entries) = 0
        THEN [s |-> s, rec |-> ImportRecord("empty", <<>>, NoCalls)]
        ELSE Loaded(BulkLoad(p.entries,
                             [s |-> clearLogs(s), newTags |-> FALSE,
                              newTerminals |-> FALSE]))

\* ----------------------------------------------------------------- export
S_device_timestamp ==
    <<"d", "e", "v", "i", "c", "e", "_", "t", "i", "m", "e", "s", "t", "a",
      "m", "p">>
\* e[c] for an entry of the store: a payload without a terminal has none,
\* a timestamp or tag that is not set is null.
Property(e, c) ==
    CASE c = S_id -> Num(e.id)
      [] c = S_terminal ->
            IF e.terminal = NoTerminal THEN Undef ELSE Num(e.terminal)
      [] c = S_device_timestamp ->
            IF e.device_timestamp = <<>> THEN JNull ELSE Str(e.device_timestamp)
      [] c = S_level -> Str(e.level)
      [] c = S_tag -> IF e.tag = <<>> THEN JNull ELSE Str(e.tag)
      [] c = S_message -> Str(e.message)
\* What JSON.parse reads back for a value that JSON.stringify wrote: NaN is
\* written as null, a property that is undefined is not written.
JSONValue(v) == IF v.t = "num" /\ v.n = NaN THEN JNull ELSE v
\* logsToJSON(logs): the elements of the array in the document; the
\* destructuring drops raw.
logsToJSON(ls) ==
    [i \in 1..Len(ls) |->
        Obj(JSONValue(Property(ls[i], S_id)),
            JSONValue(Property(ls[i], S_terminal)),
            JSONValue(Property(ls[i], S_device_timestamp)),
            JSONValue(Property(ls[i], S_level)),
            JSONValue(Property(ls[i], S_tag)),
            JSONValue(Property(ls[i], S_message)),
            Undef)]

\* String(v) of a number and of a string.
RECURSIVE ToDigits(_)
ToDigits(n) ==
    IF n < 10 THEN <<Digits[n + 1]>>
    ELSE ToDigits(n \div 10) \o <<Digits[(n % 10) + 1]>>
String(v) ==
    IF v.t = "str" THEN v.s
    ELSE IF v.n = NaN THEN <<"N", "a", "N">> ELSE ToDigits(v.n)
\* s.replace(/"/g, '""')
RECURSIVE DoubleQuotes(_)
DoubleQuotes(t) ==
    IF t = <<>> THEN <<>>
    ELSE IF Head(t) = "\""
         THEN <<"\"", "\"">> \o DoubleQuotes(Tail(t))
         ELSE <<Head(t)>> \o DoubleQuotes(Tail(t))
\* escCSV(v)
escCSV(v) ==
    IF Nullish(v) THEN <<>>
    ELSE LET Quoted(s) ==
                 IF \/ Includes(s, <<",">>)
                    \/ Includes(s, <<"\"">>)
                    \/ Includes(s, <<"\n">>)
                 THEN <<"\"">> \o DoubleQuotes(s) \o <<"\"">>
                 ELSE s
         IN  Quoted(String(v))
\* Array.prototype.join
RECURSIVE Join(_, _)
Join(parts, sep) ==
    IF parts = <<>> THEN <<>>
    ELSE IF Len(parts) = 1 THEN parts[1]
         ELSE parts[1] \o sep \o Join(Tail(parts), sep)
columns == <<S_id, S_terminal, S_device_timestamp, S_level, S_tag, S_message>>
\* logsToCSV(logs)
logsToCSV(ls) ==
    Join(<<Join(columns, <<",">>)>>
         \o [i \in 1..Len(ls) |->
                Join([k \in 1..Len(columns) |->
                         escCSV(Property(ls[i], columns[k]))], <<",">>)],
         <<"\n">>)

\* ------------------------------------------------------------- device feed
\* Payloads of the rtt-log event as the backend emits them (the id is
\* filled in from the feed's sequence counter); the second carries the level
\* word of the device line as it is.
Entry(terminal, level, tag, message, raw) ==
    [id |-> 0, terminal |-> terminal, device_timestamp |-> <<>>,
     level |-> level, tag |-> tag, message |-> message, raw |-> raw]
Payloads ==
    {Entry(NoTerminal, S_info, <<"a">>, <<"b", "a">>, <<"b", "a">>),
     Entry(1, <<"i", "n", "f">>, <<"b">>, <<"a", "b">>, <<"a", "b">>)}

\* ------------------------------------------------------------ user inputs
\* The texts the user types into the search field, and the chips the user
\* clicks (every terminal chip is clicked).
SearchTexts == {<<>>, <<"a">>}
LevelChips == {S_info}
TagChips == {<<"a">>}

\* ------------------------------------------------------------------- Init
Init ==
    /\ logs = InitState.logs
    /\ tags = InitState.tags
    /\ activeTags = InitState.activeTags
    /\ excludedTags = InitState.excludedTags
    /\ enabledLevels = InitState.enabledLevels
    /\ searchRe = InitState.searchRe
    /\ terminals = InitState.terminals
    /\ activeTerminals = InitState.activeTerminals
    /\ searchMode = InitState.searchMode
    /\ searchMatches = InitState.searchMatches
    /\ searchCurrent = InitState.searchCurrent
    /\ logArea = InitState.logArea
    /\ searchInput = <<>>
    /\ debounce = FALSE
    /\ timers = 0
    /\ pc = "idle"
    /\ format = NullFormat
    /\ feedSeq = 0
    /\ lastImport = NoImport

\* ----------------------------------------------------------- main script
\* listen('rtt-log', ...)
RttLog(p) ==
    /\ Len(logs) < MaxLogs
    /\ feedSeq < MaxFeed
    /\ Becomes(appendEntry([p EXCEPT !.id = feedSeq], Cur).s)
    /\ feedSeq' = feedSeq + 1
    /\ lastImport' = NoImport
    /\ UNCHANGED <<searchInput, debounce, timers, pc, format>>

\* listen('menu-event', ...) with payload 'import', up to the first await
\* of importLogs: the native dialog when open_ is available ...
MenuImportNative ==
    /\ pc = "idle"
    /\ pc' = "open"
    /\ format' = NullFormat
    /\ lastImport' = NoImport
    /\ UNCHANGED <<logs, tags, activeTags, excludedTags, enabledLevels,
                   searchRe, terminals, activeTerminals, searchMode,
                   searchMatches, searchCurrent, logArea, searchInput,
                   debounce, timers, feedSeq>>
\* ... and the web file picker otherwise.
MenuImportWeb ==
    /\ pc = "idle"
    /\ pc' = "pick"
    /\ format' = NullFormat
    /\ lastImport' = NoImport
    /\ UNCHANGED <<logs, tags, activeTags, excludedTags, enabledLevels,
                   searchRe, terminals, activeTerminals, searchMode,
                   searchMatches, searchCurrent, logArea, searchInput,
                   debounce, timers, feedSeq>>

\* open_ resolves with no path: `if (!path) return`.
DialogCancelled ==
    /\ pc = "open"
    /\ pc' = "idle"
    /\ format' = NullFormat
    /\ lastImport' = ImportRecord("cancelled", <<>>, NoCalls)
    /\ UNCHANGED <<logs, tags, activeTags, excludedTags, enabledLevels,
                   searchRe, terminals, activeTerminals, searchMode,
                   searchMatches, searchCurrent, logArea, searchInput,
                   debounce, timers, feedSeq>>
\* open_ resolves with a path; invoke('read_text_file') is pending.
DialogPath ==
    /\ pc = "open"
    /\ pc' = "read"
    /\ UNCHANGED format
    /\ UNCHANGED <<logs, tags, activeTags, excludedTags, enabledLevels,
                   searchRe, terminals, activeTerminals, searchMode,
                   searchMatches, searchCurrent, logArea, searchInput,
                   debounce, timers, feedSeq>>
    /\ lastImport' = NoImport
\* invoke('read_text_file') rejects: the handler's catch shows the alert.
ReadFailed ==
    /\ pc = "read"
    /\ pc' = "idle"
    /\ format' = NullFormat
    /\ lastImport' = ImportRecord("io_error", <<>>, NoCalls)
    /\ UNCHANGED <<logs, tags, activeTags, excludedTags, enabledLevels,
                   searchRe, terminals, activeTerminals, searchMode,
                   searchMatches, searchCurrent, logArea, searchInput,
                   debounce, timers, feedSeq>>
\* invoke('read_text_file') resolves: the rest of importLogs and of the
\* menu-event handler run without another suspension.  The format is
\* detected from the path only `if (!format)`.
ReadResolved(file) ==
    /\ pc = "read"
    /\ pc' = "idle"
    /\ format' = NullFormat
    /\ \E r \in {ImportText(IF format = NullFormat THEN detectFormat(file)
                                                   ELSE format, file, Cur)} :
          Becomes(r.s) /\ lastImport' = r.rec
    /\ UNCHANGED <<searchInput, debounce, timers, feedSeq>>
\* pickFileWeb resolves with the text of the chosen file.
PickResolved(file) ==
    /\ pc = "pick"
    /\ pc' = "idle"
    /\ format' = NullFormat
    /\ IF file.text = <<>>
       THEN /\ lastImport' = ImportRecord("cancelled", <<>>, NoCalls)
            /\ UNCHANGED <<logs, tags, activeTags, excludedTags, enabledLevels,
                           searchRe, terminals, activeTerminals, searchMode,
                           searchMatches, searchCurrent, logArea>>
       ELSE \E r \in {ImportText(IF format = NullFormat
                                  THEN detectFormatFromContent(file)
                                  ELSE format, file, Cur)} :
               Becomes(r.s) /\ lastImport' = r.rec
    /\ UNCHANGED <<searchInput, debounce, timers, feedSeq>>

\* The click handler of a term chip (val = -1 stands for the chip 'all').
TermChipClick_NoRevert(val) ==
    /\ LET s == Cur
           at == s.activeTerminals
           s1 == IF val = -1
                 THEN [s EXCEPT !.activeTerminals = AllTerminals]
                 ELSE IF at.isNull
                 THEN [s EXCEPT !.activeTerminals =
                                   [isNull |-> FALSE, elems |-> {val}]]
                 ELSE IF val \in at.elems
                 THEN [s EXCEPT !.activeTerminals.elems = @ \ {val}]
                 ELSE [s EXCEPT !.activeTerminals.elems = @ \cup {val}]
       IN  Becomes(rebuild(s1))
    /\ lastImport' = NoImport
    /\ UNCHANGED <<searchInput, debounce, timers, pc, format, feedSeq>>
TermChipClick(val) ==
    /\ LET s == Cur
           at == s.activeTerminals
           s1 == IF val = -1
                 THEN [s EXCEPT !.activeTerminals = AllTerminals]
                 ELSE IF at.isNull
                 THEN [s EXCEPT !.activeTerminals =
                                   [isNull |-> FALSE, elems |-> {val}]]
                 ELSE IF val \in at.elems
                 THEN IF at.elems \ {val} = {}
                      THEN [s EXCEPT !.activeTerminals = AllTerminals]
                      ELSE [s EXCEPT !.activeTerminals.elems = @ \ {val}]
                 ELSE [s EXCEPT !.activeTerminals.elems = @ \cup {val}]
       IN  Becomes(rebuild(s1))
    /\ lastImport' = NoImport
    /\ UNCHANGED <<searchInput, debounce, timers, pc, format, feedSeq>>

\* The click handler of a level chip.
LevelChipClick(l) ==
    /\ LET s == Cur
           s1 == IF l \in s.enabledLevels
                 THEN [s EXCEPT !.enabledLevels = @ \ {l}]
                 ELSE [s EXCEPT !.enabledLevels = @ \cup {l}]
       IN  Becomes(rebuild(s1))
    /\ lastImport' = NoImport
    /\ UNCHANGED <<searchInput, debounce, timers, pc, format, feedSeq>>

\* The click handler of a tag chip; alt is ev.altKey || ev.metaKey.
TagChipClick_KeepActive(t, alt) ==
    /\ LET s == Cur
           s1 == IF alt
                 THEN IF t \in s.excludedTags
                      THEN [s EXCEPT !.excludedTags = @ \ {t}]
                      ELSE [s EXCEPT !.excludedTags = @ \cup {t}]
                 ELSE IF t \in s.activeTags
                      THEN [s EXCEPT !.activeTags = @ \ {t}]
                      ELSE [s EXCEPT !.activeTags = @ \cup {t},
                                     !.excludedTags = @ \ {t}]
       IN  Becomes(rebuild(s1))
    /\ lastImport' = NoImport
    /\ UNCHANGED <<searchInput, debounce, timers, pc, format, feedSeq>>
TagChipClick(t, alt) ==
    /\ LET s == Cur
           s1 == IF alt
                 THEN IF t \in s.excludedTags
                      THEN [s EXCEPT !.excludedTags = @ \ {t}]
                      ELSE [s EXCEPT !.excludedTags = @ \cup {t},
                                     !.activeTags = @ \ {t}]
                 ELSE IF t \in s.activeTags
                      THEN [s EXCEPT !.activeTags = @ \ {t}]
                      ELSE [s EXCEPT !.activeTags = @ \cup {t},
                                     !.excludedTags = @ \ {t}]
       IN  Becomes(rebuild(s1))
    /\ lastImport' = NoImport
    /\ UNCHANGED <<searchInput, debounce, timers, pc, format, feedSeq>>

\* The click handler of #btnClear.
ClearClick ==
    /\ Becomes(clearLogs(Cur))
    /\ searchInput' = <<>>
    /\ lastImport' = NoImport
    /\ UNCHANGED <<debounce, timers, pc, format, feedSeq>>

\* scrollToCurrentMatch()
scrollToCurrentMatch(s) ==
    IF s.searchCurrent < 0 \/ s.searchCurrent >= Len(s.searchMatches)
    THEN s
    ELSE rebuild(s)

\* applySearch() with the text of the search input
applySearch_NoAutoJump(input, s) ==
    LET val == trim(input)
    IN  rebuild(updateSearchMatches(
            IF s.searchMode = "find"
            THEN [s EXCEPT !.searchRe =
                     IF val # <<>> THEN NewRegExp(EscapeRegExp(val))
                                   ELSE NullRe]
            ELSE setSearch(val, s)))
applySearch(input, s) ==
    LET val == trim(input)
        Found(s2) ==
            IF Len(s2.searchMatches) > 0 /\ s2.searchCurrent = -1
            THEN scrollToCurrentMatch([s2 EXCEPT !.searchCurrent = 0])
            ELSE s2
    IN  Found(rebuild(updateSearchMatches(
            IF s.searchMode = "find"
            THEN [s EXCEPT !.searchRe =
                     IF val # <<>> THEN NewRegExp(EscapeRegExp(val))
                                   ELSE NullRe]
            ELSE setSearch(val, s))))

\* cycleSearchMode()
NextMode(mode) ==
    LET idx == CHOOSE i \in 1..3 : MODES[i] = mode
    IN  MODES[(idx % 3) + 1]
cycleSearchMode ==
    /\ Becomes(applySearch(searchInput,
                           setSearchMode(NextMode(searchMode), Cur)))
    /\ lastImport' = NoImport
    /\ UNCHANGED <<searchInput, debounce, timers, pc, format, feedSeq>>

\* The remainder operator of JavaScript: the result has the sign of the
\* dividend.
Rem(a, n) == IF a >= 0 THEN a % n ELSE 0 - ((0 - a) % n)
\* navigateMatch(dir) on the state object.
navigateMatchOn_NoWrap(dir, s) ==
    LET n == Len(s.searchMatches)
    IN  IF n = 0 THEN s
        ELSE scrollToCurrentMatch(
                 [s EXCEPT !.searchCurrent = Rem(@ + dir, n)])
navigateMatchOn(dir, s) ==
    LET n == Len(s.searchMatches)
    IN  IF n = 0 THEN s
        ELSE scrollToCurrentMatch(
                 [s EXCEPT !.searchCurrent = Rem(@ + dir + n, n)])
\* navigateMatch(dir), from the buttons and from Enter.
navigateMatch(dir) ==
    /\ Becomes(navigateMatchOn(dir, Cur))
    /\ lastImport' = NoImport
    /\ UNCHANGED <<searchInput, debounce, timers, pc, format, feedSeq>>

\* The 'input' handler of the search field.  timers counts the timeouts
\* that are pending; debounce tells whether the timeout the variable
\* `debounce` of the script refers to is one of them.
\* clearTimeout(debounce) takes that one away, setTimeout(applySearch, 150)
\* adds one and stores its handle.
SearchInput_NoClear(text) ==
    /\ searchInput' = text
    /\ timers' = timers + 1
    /\ debounce' = TRUE
    /\ UNCHANGED <<logs, tags, activeTags, excludedTags, enabledLevels,
                   searchRe, terminals, activeTerminals, searchMode,
                   searchMatches, searchCurrent, logArea, pc, format, feedSeq>>
    /\ lastImport' = NoImport
SearchInput(text) ==
    /\ searchInput' = text
    /\ timers' = (IF debounce THEN timers - 1 ELSE timers) + 1
    /\ debounce' = TRUE
    /\ UNCHANGED <<logs, tags, activeTags, excludedTags, enabledLevels,
                   searchRe, terminals, activeTerminals, searchMode,
                   searchMatches, searchCurrent, logArea, pc, format, feedSeq>>
    /\ lastImport' = NoImport
\* The oldest pending timeout fires and runs applySearch; the one the
\* handle refers to is the youngest.
DebounceFires ==
    /\ timers > 0
    /\ timers' = timers - 1
    /\ debounce' = (debounce /\ timers > 1)
    /\ Becomes(applySearch(searchInput, Cur))
    /\ lastImport' = NoImport
    /\ UNCHANGED <<searchInput, pc, format, feedSeq>>

\* keydown with key Escape: both keydown listeners of the document run.
EscapeKey ==
    /\ Becomes(rebuild([setSearch(<<>>, rebuild(setSearch(<<>>, Cur)))
                           EXCEPT !.searchMatches = <<>>,
                                  !.searchCurrent = -1]))
    /\ searchInput' = <<>>
    /\ lastImport' = NoImport
    /\ UNCHANGED <<debounce, timers, pc, format, feedSeq>>

Next ==
    \/ \E p \in Payloads : RttLog(p)
    \/ MenuImportNative
    \/ MenuImportWeb
    \/ DialogCancelled
    \/ DialogPath
    \/ ReadFailed
    \/ \E f \in Files : ReadResolved(f)
    \/ \E f \in Files : PickResolved(f)
    \/ \E t \in DOMAIN terminals \cup {-1} : TermChipClick(t)
    \/ \E l \in LevelChips : LevelChipClick(l)
    \/ \E t \in tags \cap TagChips, alt \in BOOLEAN : TagChipClick(t, alt)
    \/ ClearClick
    \/ cycleSearchMode
    \/ \E dir \in {-1, 1} : navigateMatch(dir)
    \/ \E text \in SearchTexts : SearchInput(text)
    \/ DebounceFires
    \/ EscapeKey

Spec == Init /\ [][Next]_vars

\* --------------------------------------- calls with a format argument
\* importLogs(fmt, logArea, callbacks) and exportLogs(fmt) are exported by
\* log-io.js; the format names a caller passes here are the three of the
\* tables and one that no table holds.
S_xml == "xml"
FormatNames == FORMATS \cup {S_xml}
\* importLogs(fmt, ...) up to its first await when open_ is available: the
\* filters handed to open_ read FORMATS[format].name, which raises a
\* TypeError for a name FORMATS does not hold, before open_ is called.
importLogsNative(fmt) ==
    /\ pc = "idle"
    /\ IF fmt \notin FORMATS
       THEN /\ pc' = "idle"
            /\ format' = NullFormat
            /\ lastImport' = ImportRecord("threw", <<>>, NoCalls)
       ELSE /\ pc' = "open"
            /\ format' = fmt
            /\ lastImport' = NoImport
    /\ UNCHANGED <<logs, tags, activeTags, excludedTags, enabledLevels,
                   searchRe, terminals, activeTerminals, searchMode,
                   searchMatches, searchCurrent, logArea, searchInput,
                   debounce, timers, feedSeq>>
\* ... and when it is not: pickFileWeb() is awaited first, whatever the
\* format; parsers[format] is looked at when the text is there.
importLogsWeb(fmt) ==
    /\ pc = "idle"
    /\ pc' = "pick"
    /\ format' = fmt
    /\ lastImport' = NoImport
    /\ UNCHANGED <<logs, tags, activeTags, excludedTags, enabledLevels,
                   searchRe, terminals, activeTerminals, searchMode,
                   searchMatches, searchCurrent, logArea, searchInput,
                   debounce, timers, feedSeq>>
\* exportLogs(fmt) up to its first await when save is available: the throw
\* for a name FORMATS does not hold, the alert for an empty store, the save
\* dialog otherwise.
exportLogsNative(fmt) ==
    /\ pc = "idle"
    /\ IF fmt \notin FORMATS \/ logs = <<>>
       THEN pc' = "idle" /\ format' = NullFormat
       ELSE pc' = "save" /\ format' = fmt
    /\ lastImport' = NoImport
    /\ UNCHANGED <<logs, tags, activeTags, excludedTags, enabledLevels,
                   searchRe, terminals, activeTerminals, searchMode,
                   searchMatches, searchCurrent, logArea, searchInput,
                   debounce, timers, feedSeq>>
\* ... and when it is not: downloadBlob hands the content to the browser.
exportLogsWeb(fmt) ==
    /\ pc = "idle"
    /\ IF fmt \notin FORMATS \/ logs = <<>>
       THEN pc' = "idle" /\ format' = NullFormat
       ELSE pc' = "download" /\ format' = fmt
    /\ lastImport' = NoImport
    /\ UNCHANGED <<logs, tags, activeTags, excludedTags, enabledLevels,
                   searchRe, terminals, activeTerminals, searchMode,
                   searchMatches, searchCurrent, logArea, searchInput,
                   debounce, timers, feedSeq>>
\* save resolves with no path (`if (!path) return`) ...
SaveCancelled ==
    /\ pc = "save"
    /\ pc' = "idle"
    /\ format' = NullFormat
    /\ lastImport' = NoImport
    /\ UNCHANGED <<logs, tags, activeTags, excludedTags, enabledLevels,
                   searchRe, terminals, activeTerminals, searchMode,
                   searchMatches, searchCurrent, logArea, searchInput,
                   debounce, timers, feedSeq>>
\* ... or with a path: invoke('write_text_file') is pending.
SavePath ==
    /\ pc = "save"
    /\ pc' = "write"
    /\ lastImport' = NoImport
    /\ UNCHANGED <<logs, tags, activeTags, excludedTags, enabledLevels,
                   searchRe, terminals, activeTerminals, searchMode,
                   searchMatches, searchCurrent, logArea, searchInput,
                   debounce, timers, format, feedSeq>>
\* invoke('write_text_file') settles, or the browser has taken the blob.
ExportDone ==
    /\ pc \in {"write", "download"}
    /\ pc' = "idle"
    /\ format' = NullFormat
    /\ lastImport' = NoImport
    /\ UNCHANGED <<logs, tags, activeTags, excludedTags, enabledLevels,
                   searchRe, terminals, activeTerminals, searchMode,
                   searchMatches, searchCurrent, logArea, searchInput,
                   debounce, timers, feedSeq>>

\* A session in which the feed fills the store and the two functions are
\* called with every format name, on the native and on the browser path.
NextFormat ==
    \/ \E p \in Payloads : RttLog(p)
    \/ \E fmt \in FormatNames : importLogsNative(fmt)
    \/ \E fmt \in FormatNames : importLogsWeb(fmt)
    \/ DialogCancelled
    \/ DialogPath
    \/ ReadFailed
    \/ \E f \in Files : ReadResolved(f)
    \/ \E f \in Files : PickResolved(f)
    \/ \E fmt \in FormatNames : exportLogsNative(fmt)
    \/ \E fmt \in FormatNames : exportLogsWeb(fmt)
    \/ SaveCancelled
    \/ SavePath
    \/ ExportDone
SpecFormat == Init /\ [][NextFormat]_vars

\* ------------------------------------------------- parsers on level words
\* The level words a file can carry, and for every word one file per
\* recognizer that reads a level: a JSON object, a CSV row, a Zephyr-style
\* line and a line in the shape of the plain-text export.
LevelWords ==
    {S_error, S_warn, S_info, S_debug, S_raw,
     <<"E", "R", "R", "O", "R">>, <<"W", "a", "r", "n">>,
     <<"I", "N", "F", "O">>, <<"D", "e", "b", "u", "g">>, <<"R", "A", "W">>,
     <<"i", "n", "f">>, <<"e", "r", "r">>, <<"w", "r", "n">>,
     <<"d", "b", "g">>, <<"I", "N", "F">>,
     <<"v", "e", "r", "b", "o", "s", "e">>, <<"t", "r", "a", "c", "e">>,
     <<>>}
JSONLevelFile(w) ==
    File(S_json,
         <<"[", "{", "\"", "l", "e", "v", "e", "l", "\"", ":", "\"">> \o w
         \o <<"\"", ",", "\"", "m", "e", "s", "s", "a", "g", "e", "\"", ":",
              "\"">> \o w \o <<"\"", "}", "]">>,
         JSONArray(<<Obj(Undef, Undef, Undef, Str(w), Undef, Str(w), Undef)>>))
CSVLevelFile(w) ==
    File(S_csv,
         <<"l", "e", "v", "e", "l", ",", "m", "e", "s", "s", "a", "g", "e",
           "\n">> \o w \o <<",", "m">> \o w,
         NotJSON)
ZephyrLevelFile(w) ==
    File(S_txt,
         <<"[", "0", "0", ":", "0", "0", ":", "0", "1", ".", "0", "0", "0",
           "]", " ", "<">> \o w \o <<">", " ", "t", ":", " ", "m">>,
         NotJSON)
ExportLevelFile(w) ==
    File(S_txt, <<" ", "7", " ", "T", "1", " ", "[">> \o w \o <<"]", " ", "m">>,
         NotJSON)
\* [{"message":"m"}], [{"level":null}], [{"level":0}], [{"level":5}]
JSONOddLevelFiles ==
    {File(S_json,
          <<"[", "{", "\"", "m", "e", "s", "s", "a", "g", "e", "\"", ":",
            "\"", "m", "\"", "}", "]">>,
          JSONArray(<<Obj(Undef, Undef, Undef, Undef, Undef, Str(<<"m">>),
                          Undef)>>)),
     File(S_json,
          <<"[", "{", "\"", "l", "e", "v", "e", "l", "\"", ":", "n", "u",
            "l", "l", "}", "]">>,
          JSONArray(<<Obj(Undef, Undef, Undef, JNull, Undef, Undef, Undef)>>)),
     File(S_json,
          <<"[", "{", "\"", "l", "e", "v", "e", "l", "\"", ":", "0", "}", "]">>,
          JSONArray(<<Obj(Undef, Undef, Undef, Num(0), Undef, Undef, Undef)>>)),
     File(S_json, T_jsonNum,
          JSONArray(<<Obj(Undef, Undef, Undef, Num(5), Undef, Undef, Undef)>>))}
\* The line of the parser example.
\* [00:29:56.296,813] <inf> ble_manager: IU 3 ON
T_zephyrLine ==
    <<"[", "0", "0", ":", "2", "9", ":", "5", "6", ".", "2", "9", "6", ",",
      "8", "1", "3", "]", " ", "<", "i", "n", "f", ">", " ", "b", "l", "e",
      "_", "m", "a", "n", "a", "g", "e", "r", ":", " ", "I", "U", " ", "3",
      " ", "O", "N">>
LevelFiles ==
    {JSONLevelFile(w) : w \in LevelWords}
    \cup {CSVLevelFile(w) : w \in LevelWords}
    \cup {ZephyrLevelFile(w) : w \in LevelWords}
    \cup {ExportLevelFile(w) : w \in LevelWords}
    \cup JSONOddLevelFiles
    \cup {File(S_txt, T_zephyrLine, NotJSON)}

\* Imports of these files, one after the other, into a session that
\* receives no other event.
NextLevels ==
    \/ MenuImportNative
    \/ DialogPath
    \/ \E f \in LevelFiles : ReadResolved(f)
SpecLevels == Init /\ [][NextLevels]_vars

\* ------------------------------------------------------ a search session
\* A session in which the feed delivers entries while the user edits the
\* search field, switches the mode, walks the matches and toggles a level:
\* a third payload gives the pattern 'a' two entries to match in one pass,
\* '(' is a text that new RegExp rejects and '.' one that find mode escapes.
SearchPayloads ==
    Payloads \cup {Entry(0, S_debug, <<>>, <<"a", "b">>, <<"a", "b">>)}
SearchPatterns == {<<>>, <<"a">>, <<"(">>, <<".">>}
NextSearch ==
    \/ \E p \in SearchPayloads : RttLog(p)
    \/ \E text \in SearchPatterns : SearchInput(text)
    \/ DebounceFires
    \/ cycleSearchMode
    \/ \E dir \in {-1, 1} : navigateMatch(dir)
    \/ \E l \in LevelChips : LevelChipClick(l)
    \/ EscapeKey
SpecSearch == Init /\ [][NextSearch]_vars

\* Typing into the search field of a session whose store is empty, with
\* mode switches, level chips and the Escape key in between.  The event
\* loop runs the callback of a timeout that is pending: weak fairness of
\* DebounceFires.
NextDebounce ==
    \/ \E text \in SearchPatterns : SearchInput(text)
    \/ DebounceFires
    \/ cycleSearchMode
    \/ \E l \in {S_info, S_debug} : LevelChipClick(l)
    \/ EscapeKey
SpecDebounce == Init /\ [][NextDebounce]_vars /\ WF_vars(DebounceFires)

\* String.prototype.toUpperCase
ToUpperChar(c) ==
    IF \E i \in 1..26 : Lower[i] = c
    THEN Upper[CHOOSE i \in 1..26 : Lower[i] = c]
    ELSE c
toUpperCase(t) == [i \in 1..Len(t) |-> ToUpperChar(t[i])]
\* String.prototype.padStart(n): blanks in front up to n characters.
padStart(t, n) ==
    IF Len(t) >= n THEN t ELSE [i \in 1..(n - Len(t)) |-> " "] \o t
\* The line logsToText writes for one entry: the parts that are pushed,
\* joined by a blank.  The id of a stored entry is never null.
TextLine(e) ==
    LET level == IF e.level # <<>> THEN e.level ELSE S_raw
        upper == toUpperCase(level)
        idPart == <<padStart(String(Num(e.id)), 5)>>
        terminalPart ==
            IF Nullish(Property(e, S_terminal)) THEN <<>>
            ELSE <<<<"T">> \o String(Num(e.terminal))>>
        stampPart ==
            IF e.device_timestamp # <<>> THEN <<e.device_timestamp>> ELSE <<>>
        levelPart ==
            <<<<"[">> \o SubSeq(upper, 1, IF Len(upper) < 3 THEN Len(upper) ELSE 3)
              \o <<"]">>>>
        tagPart == IF e.tag # <<>> THEN <<<<"<">> \o e.tag \o <<">">>>> ELSE <<>>
        messagePart == <<IF e.message # <<>> THEN e.message ELSE e.raw>>
    IN  Join(idPart \o terminalPart \o stampPart \o levelPart \o tagPart
             \o messagePart, <<" ">>)
\* logsToText(logs)
logsToText(ls) == Join([i \in 1..Len(ls) |-> TextLine(ls[i])], <<"\n">>)

\* ------------------------------------------------ export and import again
\* Files that bring commas, quotes, line feeds, a carriage return, an id
\* that is not a number and a timestamp with a letter into the store.
\* [{"id":7,"terminal":2,"device_timestamp":"1,5","level":"warn","tag":"q\"","message":"a,b"},{"message":"x\ny"}]
T_jsonQuoted ==
    <<"[", "{", "\"", "i", "d", "\"", ":", "7", ",", "\"", "t", "e", "r",
      "m", "i", "n", "a", "l", "\"", ":", "2", ",", "\"", "d", "e", "v",
      "i", "c", "e", "_", "t", "i", "m", "e", "s", "t", "a", "m", "p", "\"",
      ":", "\"", "1", ",", "5", "\"", ",", "\"", "l", "e", "v", "e", "l",
      "\"", ":", "\"", "w", "a", "r", "n", "\"", ",", "\"", "t", "a", "g",
      "\"", ":", "\"", "q", "\\", "\"", "\"", ",", "\"", "m", "e", "s", "s",
      "a", "g", "e", "\"", ":", "\"", "a", ",", "b", "\"", "}", ",", "{",
      "\"", "m", "e", "s", "s", "a", "g", "e", "\"", ":", "\"", "x", "\\",
      "n", "y", "\"", "}", "]">>
\* [{"id":3,"message":"c\rd"}]
T_jsonCR ==
    <<"[", "{", "\"", "i", "d", "\"", ":", "3", ",", "\"", "m", "e", "s",
      "s", "a", "g", "e", "\"", ":", "\"", "c", "\\", "r", "d", "\"", "}",
      "]">>
\* [{"id":"x","message":"m"}]
T_jsonBadId ==
    <<"[", "{", "\"", "i", "d", "\"", ":", "\"", "x", "\"", ",", "\"", "m",
      "e", "s", "s", "a", "g", "e", "\"", ":", "\"", "m", "\"", "}", "]">>
\* [{"id":4,"terminal":1,"device_timestamp":"5s","message":"m"}]
T_jsonStamp ==
    <<"[", "{", "\"", "i", "d", "\"", ":", "4", ",", "\"", "t", "e", "r",
      "m", "i", "n", "a", "l", "\"", ":", "1", ",", "\"", "d", "e", "v",
      "i", "c", "e", "_", "t", "i", "m", "e", "s", "t", "a", "m", "p", "\"",
      ":", "\"", "5", "s", "\"", ",", "\"", "m", "e", "s", "s", "a", "g",
      "e", "\"", ":", "\"", "m", "\"", "}", "]">>
SeedFiles ==
    {File(S_json, T_jsonQuoted,
          JSONArray(<<Obj(Num(7), Num(2), Str(<<"1", ",", "5">>), Str(S_warn),
                          Str(<<"q", "\"">>), Str(<<"a", ",", "b">>), Undef),
                      Obj(Undef, Undef, Undef, Undef, Undef,
                          Str(<<"x", "\n", "y">>), Undef)>>)),
     File(S_json, T_jsonCR,
          JSONArray(<<Obj(Num(3), Undef, Undef, Undef, Undef,
                          Str(<<"c", "\r", "d">>), Undef)>>)),
     File(S_json, T_jsonBadId,
          JSONArray(<<Obj(Str(<<"x">>), Undef, Undef, Undef, Undef,
                          Str(<<"m">>), Undef)>>)),
     File(S_json, T_jsonStamp,
          JSONArray(<<Obj(Num(4), Num(1), Str(<<"5", "s">>), Undef, Undef,
                          Str(<<"m">>), Undef)>>))}

\* menu-event 'export_json' on a store that is not empty, followed by the
\* import of the file that was written: parseJSON reads what logsToJSON
\* wrote, and importLogs loads the entries.
ExportImportJSON ==
    /\ logs # <<>>
    /\ \E r \in {ImportParsed(parseJSON(JSONArray(logsToJSON(logs)), Cur), Cur)} :
          Becomes(r.s) /\ lastImport' = r.rec
    /\ UNCHANGED <<searchInput, debounce, timers, pc, format, feedSeq>>
\* The same with menu-event 'export_csv'.
ExportImportCSV ==
    /\ logs # <<>>
    /\ \E r \in {ImportParsed(parseCSV(logsToCSV(logs), Cur), Cur)} :
          Becomes(r.s) /\ lastImport' = r.rec
    /\ UNCHANGED <<searchInput, debounce, timers, pc, format, feedSeq>>

\* The same with menu-event 'export_txt': parseText reads what logsToText
\* wrote.
ExportImportText ==
    /\ logs # <<>>
    /\ \E r \in {ImportParsed(parseText(logsToText(logs), Cur), Cur)} :
          Becomes(r.s) /\ lastImport' = r.rec
    /\ UNCHANGED <<searchInput, debounce, timers, pc, format, feedSeq>>

\* A session that fills the store from the feed (with the payloads whose
\* level is one of the five) and from the files above, and exports and
\* re-imports it.
LevelledPayloads == {p \in Payloads : p.level \in Levels}
NextRoundTrip ==
    \/ \E p \in LevelledPayloads : RttLog(p)
    \/ MenuImportNative
    \/ DialogPath
    \/ \E f \in SeedFiles : ReadResolved(f)
    \/ ExportImportJSON
    \/ ExportImportCSV
    \/ ExportImportText
SpecRoundTrip == Init /\ [][NextRoundTrip]_vars

\* ----------------------------------------------------------------- claims
sessionState ==
    <<logs, tags, terminals, activeTags, excludedTags, activeTerminals,
      enabledLevels, searchRe, searchMode, searchMatches, searchCurrent>>

\* C1: an import whose batch parses to zero entries leaves logs, tags,
\* terminal counts, the filter sets and the search state as they were.
C1_EmptyImportKeepsState ==
    [][lastImport'.result = "empty" => UNCHANGED sessionState]_vars
\* An empty batch was refused while the store held entries and a tag was
\* excluded.
C1_Witness ==
    /\ lastImport.result = "empty"
    /\ logs # <<>>
    /\ excludedTags # {}

\* C2: an import whose parser throws is aborted with the store, the
\* derived indices, the filter sets and the search state unchanged.
C2_ParseFailureKeepsState ==
    [][lastImport'.result = "parse_error" => UNCHANGED sessionState]_vars
\* A parse failure happened while the store held entries and a search
\* pattern was compiled.
C2_Witness ==
    /\ lastImport.result = "parse_error"
    /\ logs # <<>>
    /\ ~searchRe.isNull

\* C3: every step of an import (a step that moves pc) either leaves the
\* store and its indices alone or replaces the store by the whole parsed
\* batch in file order; a streamed append between the steps only adds one
\* entry at the end.
C3_ImportAllOrNothing ==
    [][/\ pc' # pc =>
            \/ UNCHANGED <<logs, tags, terminals>>
            \/ /\ lastImport'.result = "ok"
               /\ lastImport'.entries # <<>>
               /\ logs' = lastImport'.entries
       /\ (pc' = pc /\ pc # "idle" /\ logs' # logs) =>
            \/ logs' = <<>>
            \/ Len(logs') = Len(logs) + 1 /\ SubSeq(logs', 1, Len(logs)) = logs
      ]_vars
\* A batch of two entries replaced a store that held streamed entries.
C3_Witness ==
    /\ lastImport.result = "ok"
    /\ Len(lastImport.entries) = 2
    /\ logs = lastImport.entries
    /\ feedSeq > 0

HasTag(entries) == \E i \in 1..Len(entries) : entries[i].tag # <<>>
C5_ClearEmptiesStore ==
    [][ClearClick => (logs' = <<>> /\ tags' = {} /\ DOMAIN terminals' = {})]_vars
\* The store is empty although the feed has delivered entries.
C5_Witness ==
    /\ feedSeq > 0
    /\ logs = <<>>
    /\ tags = {}
    /\ DOMAIN terminals = {}

\* C6 as stated: the step of the clear button leaves every field of the
\* session state at its value of the session start.
C6_Original ==
    [][ClearClick =>
          /\ logs' = InitState.logs
          /\ tags' = InitState.tags
          /\ terminals' = InitState.terminals
          /\ activeTags' = InitState.activeTags
          /\ excludedTags' = InitState.excludedTags
          /\ activeTerminals' = InitState.activeTerminals
          /\ enabledLevels' = InitState.enabledLevels
          /\ searchRe' = InitState.searchRe
          /\ searchMode' = InitState.searchMode
          /\ searchMatches' = InitState.searchMatches
          /\ searchCurrent' = InitState.searchCurrent]_vars
\* C6 amended: the step of the clear button leaves logs, tags, terminals,
\* activeTags, excludedTags, activeTerminals, searchRe, searchMatches and
\* searchCurrent at their values of the session start, and leaves
\* enabledLevels and searchMode as they were before the click.
C6_ClearResetsAllButLevelsAndMode ==
    [][ClearClick =>
          /\ logs' = InitState.logs
          /\ tags' = InitState.tags
          /\ terminals' = InitState.terminals
          /\ activeTags' = InitState.activeTags
          /\ excludedTags' = InitState.excludedTags
          /\ activeTerminals' = InitState.activeTerminals
          /\ searchRe' = InitState.searchRe
          /\ searchMatches' = InitState.searchMatches
          /\ searchCurrent' = InitState.searchCurrent
          /\ enabledLevels' = enabledLevels
          /\ searchMode' = searchMode]_vars
\* The store was emptied after the feed delivered entries, with a level
\* switched off and the search mode moved away from 'find'.
C6_Witness ==
    /\ feedSeq > 0
    /\ logs = <<>>
    /\ searchInput = <<>>
    /\ searchRe.isNull
    /\ enabledLevels # Levels
    /\ searchMode = "filter"

\* C7: every entry held in the store has one of the five levels.
C7_StoredLevelsEnumerated ==
    \A i \in 1..Len(logs) : logs[i].level \in Levels

\* C8: every entry a parser returns has one of the five levels, whatever
\* level value the file carries.
C8_ParsedLevelsEnumerated ==
    /\ \A i \in 1..Len(lastImport.entries) : lastImport.entries[i].level \in Levels
    /\ \A i \in 1..Len(logs) : logs[i].level \in Levels
\* A parser returned an entry of a line whose level word is none of the
\* five: the word is kept in raw, the level is 'raw'.
C8_Witness ==
    /\ lastImport.result = "ok"
    /\ \E i \in 1..Len(lastImport.entries) :
          /\ lastImport.entries[i].level = S_raw
          /\ Includes(lastImport.entries[i].raw, <<"<", "I", "N", "F", ">">>)

\* C9: no tag is in activeTags and in excludedTags at once; an exclude
\* click on an active tag moves it to excludedTags and an include click on
\* an excluded tag moves it to activeTags.
C9_TagSetsDisjoint ==
    /\ [](activeTags \cap excludedTags = {})
    /\ [][\A t \in TagChips :
            /\ (t \in activeTags /\ TagChipClick(t, TRUE)) =>
                   (t \in excludedTags' /\ t \notin activeTags')
            /\ (t \in excludedTags /\ TagChipClick(t, FALSE)) =>
                   (t \in activeTags' /\ t \notin excludedTags')]_vars
\* A tag is excluded while another tag chip exists.
C9_Witness ==
    /\ <<"a">> \in excludedTags
    /\ <<"a">> \notin activeTags
    /\ Cardinality(tags) = 2

\* C10: activeTerminals is null or a non-empty set, and a click on the only
\* selected terminal makes it null.
C10_TerminalSelectionNeverEmpty ==
    /\ [](activeTerminals.isNull \/ activeTerminals.elems # {})
    /\ [][\A t \in DOMAIN terminals :
            (/\ ~activeTerminals.isNull
             /\ activeTerminals.elems = {t}
             /\ TermChipClick(t)) => activeTerminals' = AllTerminals]_vars
\* One of two terminals is selected.
C10_Witness ==
    /\ ~activeTerminals.isNull
    /\ Cardinality(activeTerminals.elems) = 1
    /\ Cardinality(DOMAIN terminals) = 2

\* ------------------------------------------------- the visibility contract
\* The pattern matches somewhere in the text (case-insensitive), whatever
\* scan position earlier calls left behind.
RawMatches(re, text) == \E i \in 0..Len(text) : MatchAt(re, text, i)
\* The five conditions of matches(e) on the current session state.
Visible(e) ==
    /\ e.level \in enabledLevels
    /\ e.tag \notin excludedTags
    /\ activeTags = {} \/ e.tag \in activeTags
    /\ (searchMode = "filter" /\ ~searchRe.isNull) => RawMatches(searchRe, e.raw)
    /\ activeTerminals.isNull \/ TermOf(e) \in activeTerminals.elems
\* The ids of the entries that satisfy the five conditions, in store order.
ShownByPredicate == Ids(SelectSeq(logs, Visible))

\* C11: the entries on the render surface are exactly the entries of the
\* store whose level is enabled, whose tag is not excluded, whose tag is
\* in activeTags unless that set is empty, whose raw matches the pattern
\* when the mode is 'filter' and a pattern is compiled, and whose terminal
\* (default 0) is selected unless the selection is 'all'.
C11_VisibleIffFiveConditions == logArea = ShownByPredicate

\* The handlers that end in rebuild(logArea) and can leave a compiled
\* pattern behind.
RebuildStep ==
    \/ \E t \in DOMAIN terminals \cup {-1} : TermChipClick(t)
    \/ \E l \in LevelChips : LevelChipClick(l)
    \/ \E t \in tags \cap TagChips, alt \in BOOLEAN : TagChipClick(t, alt)
    \/ cycleSearchMode
    \/ DebounceFires
\* C12: after a handler that rebuilds the render surface in filter mode
\* with a compiled pattern, an entry that passes the level, tag and
\* terminal conditions is shown if and only if its raw matches the
\* pattern, whatever entries were evaluated before it in the pass.
C12_FilterRebuildPerEntry ==
    [][(RebuildStep /\ searchMode' = "filter" /\ ~searchRe'.isNull) =>
           logArea' = ShownByPredicate']_vars

\* C13: in filter mode the match list is empty and the current-match
\* pointer is -1.
C13_FilterModeHasNoMatchList ==
    searchMode = "filter" => (searchMatches = <<>> /\ searchCurrent = -1)
\* Filter mode with a compiled pattern that entries on the render surface
\* match.
C13_Witness ==
    /\ searchMode = "filter"
    /\ ~searchRe.isNull
    /\ logArea # <<>>
    /\ searchMatches = <<>>
    /\ searchCurrent = -1

\* An entry that the match list has to hold: visible, and its raw (its
\* message when raw is empty) matches the pattern.
IsMatch(e) ==
    /\ Visible(e)
    /\ RawMatches(searchRe, IF e.raw # <<>> THEN e.raw ELSE e.message)
MatchingVisibleIds == Ids(SelectSeq(logs, IsMatch))
\* The handlers that run applySearch().
ApplySearchStep == cycleSearchMode \/ DebounceFires
\* C14: after applySearch in find or regex mode with a compiled pattern
\* the match list is the sequence of the ids of the visible entries whose
\* raw (or message) matches the pattern, in store order.
C14_MatchListExact ==
    [][(ApplySearchStep /\ searchMode' # "filter" /\ ~searchRe'.isNull) =>
           searchMatches' = MatchingVisibleIds']_vars

\* The click handlers of the level, tag and terminal chips.
ChipStep ==
    \/ \E t \in DOMAIN terminals \cup {-1} : TermChipClick(t)
    \/ \E l \in LevelChips : LevelChipClick(l)
    \/ \E t \in tags \cap TagChips, alt \in BOOLEAN : TagChipClick(t, alt)
\* Every id of the match list is the id of a visible entry.
MatchListVisible ==
    \A i \in 1..Len(searchMatches) :
        \E j \in 1..Len(logs) :
            logs[j].id = searchMatches[i] /\ Visible(logs[j])
\* C15: after a click on a level, tag or terminal chip in find or regex
\* mode with a compiled pattern, the match list holds only ids of entries
\* that are visible under the new predicate.
C15_MatchListFollowsPredicate ==
    [][(ChipStep /\ searchMode' # "filter" /\ ~searchRe'.isNull) =>
           MatchListVisible']_vars

\* C16: after applySearch the current-match pointer is 0 when the match
\* list is non-empty and -1 when it is empty.
C16_PointerAfterApplySearch ==
    [][ApplySearchStep =>
           searchCurrent' = IF searchMatches' # <<>> THEN 0 ELSE -1]_vars
\* applySearch found two matches and stands on the first.
C16_Witness ==
    /\ ~debounce
    /\ searchInput # <<>>
    /\ Len(searchMatches) = 2
    /\ searchCurrent = 0

\* C17: navigateMatch(dir) on a match list of length L > 0 leaves the list
\* as it is and moves the pointer to (pointer + dir) modulo L, so that
\* next from L-1 gives 0, previous from 0 gives L-1 and next followed by
\* previous restores the pointer; on an empty list it changes nothing.
C17_NavigationWraps ==
    /\ [][\A dir \in {-1, 1} :
            navigateMatch(dir) =>
                IF searchMatches = <<>>
                THEN UNCHANGED <<sessionState, logArea, searchInput>>
                ELSE /\ searchMatches' = searchMatches
                     /\ searchCurrent' =
                            (searchCurrent + dir) % Len(searchMatches)]_vars
    /\ [](searchMatches # <<>> =>
            /\ navigateMatchOn(-1, navigateMatchOn(1, Cur)).searchCurrent
                   = searchCurrent
            /\ navigateMatchOn(1, navigateMatchOn(-1, Cur)).searchCurrent
                   = searchCurrent)
\* The pointer stands on the last of two matches.
C17_Witness ==
    /\ Len(searchMatches) = 2
    /\ searchCurrent = 1

\* The level, tag and terminal conditions of matches(e).
PassesFilters(e) ==
    /\ e.level \in enabledLevels
    /\ e.tag \notin excludedTags
    /\ activeTags = {} \/ e.tag \in activeTags
    /\ activeTerminals.isNull \/ TermOf(e) \in activeTerminals.elems
ShownWithoutSearch == Ids(SelectSeq(logs, PassesFilters))
\* C18: applySearch in regex or filter mode with a text that does not
\* compile leaves searchRe null, the match list empty, the pointer at -1
\* and on the render surface every entry that passes the level, tag and
\* terminal conditions.
C18_BadPatternDisablesSearch ==
    [][(/\ ApplySearchStep
        /\ searchMode' # "find"
        /\ trim(searchInput) # <<>>
        /\ ~Compiles(trim(searchInput))) =>
           /\ searchRe'.isNull
           /\ searchMatches' = <<>>
           /\ searchCurrent' = -1
           /\ logArea' = ShownWithoutSearch']_vars
\* The text '(' was applied in filter mode to a store of two entries,
\* both of which are shown.
C18_Witness ==
    /\ searchMode = "filter"
    /\ searchInput = <<"(">>
    /\ ~debounce
    /\ searchRe.isNull
    /\ Len(logs) = 2
    /\ Len(logArea) = 2

\* The six schema fields of an entry (a missing terminal counts as 0).
SixFields(e) ==
    <<e.id, TermOf(e), e.device_timestamp, e.level, e.tag, e.message>>
\* The store after the step holds, entry by entry and in the same order,
\* the six schema fields the store held before.
Reproduced ==
    /\ lastImport'.result = "ok"
    /\ Len(logs') = Len(logs)
    /\ \A i \in 1..Len(logs) : SixFields(logs'[i]) = SixFields(logs[i])

\* C19: a JSON export followed by the import of the exported file leaves
\* every entry of the store, in the same order, with the same id,
\* terminal, device_timestamp, level, tag and message.
C19_JSONRoundTrip == [][ExportImportJSON => Reproduced]_vars

\* C20: a CSV export followed by the import of the exported file leaves
\* every entry of the store, in the same order, with the same six schema
\* fields, also when a message or tag holds a comma, a double quote, a
\* line feed or a carriage return.
C20_CSVRoundTrip == [][ExportImportCSV => Reproduced]_vars

\* C21: a plain-text export followed by the import of the exported file
\* yields one entry per exported entry, and every entry whose id and
\* terminal are written into its line comes back with that id and that
\* terminal.
InExportedLine(e) == e.id # NaN /\ e.terminal \notin {NoTerminal, NaN}
C21_TextRoundTrip ==
    [][ExportImportText =>
          /\ lastImport'.result = "ok"
          /\ Len(logs') = Len(logs)
          /\ \A i \in 1..Len(logs) :
                InExportedLine(logs[i]) =>
                    /\ logs'[i].id = logs[i].id
                    /\ logs'[i].terminal = logs[i].terminal]_vars

\* The fields of the entry that the import made of the example line,
\* but for the level.
ZephyrExampleFields(e) ==
    /\ e.device_timestamp = SubSeq(T_zephyrLine, 2, 17)
    /\ e.tag = SubSeq(T_zephyrLine, 26, 36)
    /\ e.message = SubSeq(T_zephyrLine, 39, 45)
\* C22: the entry parsed from the line
\* [00:29:56.296,813] <inf> ble_manager: IU 3 ON has device_timestamp
\* "00:29:56.296,813", tag "ble_manager" and message "IU 3 ON"; its level
\* is 'raw', because the captured word 'inf' goes through normalize and is
\* none of the five level names (it is neither kept nor expanded to
\* 'info').
C22_ZephyrExample ==
    \A i \in 1..Len(logs) :
        logs[i].raw = T_zephyrLine =>
            ZephyrExampleFields(logs[i]) /\ logs[i].level = S_raw
\* The example line has been imported.
C22_Witness ==
    /\ lastImport.result = "ok"
    /\ Len(logs) = 1
    /\ logs[1].raw = T_zephyrLine
    /\ logs[1].tag = <<"b", "l", "e", "_", "m", "a", "n", "a", "g", "e", "r">>
\* C22 as stated: the level of that entry is the captured word 'inf'.
C22_Original ==
    \A i \in 1..Len(logs) :
        logs[i].raw = T_zephyrLine =>
            ZephyrExampleFields(logs[i]) /\ logs[i].level = <<"i", "n", "f">>

\* The positions of the elements of a JSON array that carry no id.
WithoutId(file) ==
    {i \in 1..Len(file.json.elems) : Nullish(file.json.elems[i].id)}
\* C23: the entries of one imported JSON batch that carried no id receive
\* pairwise distinct ids.
C23_SynthesizedIdsDistinct ==
    [][\A f \in Files :
          /\ ReadResolved(f) \/ PickResolved(f)
          /\ f.json.isArray
          /\ lastImport'.result = "ok"
          => \A i, j \in WithoutId(f) :
                i # j => lastImport'.entries[i].id # lastImport'.entries[j].id]_vars

\* C24: a call of importLogs or exportLogs with a format name that is not
\* known starts no I/O: after the step of the call no file dialog and no
\* file picker is open and no read, write or download is under way, and
\* the call that raises the error for the unknown name raises it in the
\* step of the call.
C24_UnknownFormatFailsFirst ==
    [][/\ \A fmt \in FormatNames \ FORMATS :
             \/ importLogsNative(fmt)
             \/ importLogsWeb(fmt)
             \/ exportLogsNative(fmt)
             \/ exportLogsWeb(fmt)
             => pc' = "idle"
       /\ lastImport'.result = "threw" => pc = "idle"]_vars

\* What C25 says but for the text the recompute uses: at most one timeout
\* is pending, and it is the one the handle refers to; an input event
\* leaves exactly one pending, having cancelled the one before; the
\* timeout that fires runs one recompute with the text of the field and
\* leaves none pending; a pending recompute runs at last.
CoalescedRecompute ==
    /\ [](timers <= 1 /\ debounce = (timers = 1))
    /\ [][/\ (\E text \in SearchPatterns : SearchInput(text)) => timers' = 1
          /\ DebounceFires =>
                /\ timers' = 0
                /\ searchRe' = applySearch(searchInput, Cur).searchRe
                /\ searchMatches' = applySearch(searchInput, Cur).searchMatches]_vars
    /\ (timers > 0) ~> (timers = 0)
\* C25: search input is coalesced (see CoalescedRecompute); the text the
\* pending recompute will use is the text of the last input event, or the
\* empty text when the Escape key (or the Clear button) has emptied the
\* field since, which does not cancel the timeout.
C25_InputCoalesced ==
    /\ CoalescedRecompute
    /\ [][debounce /\ searchInput' # searchInput =>
             \/ \E text \in SearchPatterns : SearchInput(text)
             \/ searchInput' = <<>> /\ debounce']_vars
\* '.' was applied in regex mode, then 'a' was typed: one timeout is
\* pending for the new text.
C25_Witness ==
    /\ timers = 1
    /\ debounce
    /\ searchInput = <<"a">>
    /\ searchMode = "regex"
    /\ ~searchRe.isNull
    /\ searchRe.source # NewRegExp(<<"a">>).source
\* C25 as stated: the recompute uses the text of the last input event, so
\* while it is pending only an input event changes the text of the field.
C25_Original ==
    /\ CoalescedRecompute
    /\ [][debounce /\ searchInput' # searchInput =>
             \E text \in SearchPatterns : SearchInput(text)]_vars

\* C26: matches(e) is pure: for every entry of the store, two evaluations
\* in a row under the configuration of the state give the same result,
\* and the first one leaves the state (the scan position lastIndex of the
\* compiled pattern included) as it was.
C26_VisibilityPure ==
    \A i \in 1..Len(logs) :
        LET Twice(first) ==
                /\ first.s = Cur
                /\ matches(logs[i], first.s).ok = first.ok
        IN  Twice(matches(logs[i], Cur))

\* The entry at the end of the store is visible and matches the pattern,
\* and the match list holds its id.
LastIsMatch == logs # <<>> /\ IsMatch(logs[Len(logs)])
LastInMatchList ==
    \E i \in 1..Len(searchMatches) : searchMatches[i] = logs[Len(logs)].id
\* C27: in find or regex mode with a compiled pattern, after the append of
\* a streamed entry that is visible and matches the pattern, the id of
\* that entry is in the match list.
C27_AppendExtendsMatchList ==
    [][(/\ \E p \in Payloads : RttLog(p)
        /\ searchMode' # "filter"
        /\ ~searchRe'.isNull
        /\ LastIsMatch') => LastInMatchList']_vars

\* C28: the current-match pointer is -1 or an index of the match list
\* (counted from 0), and it is -1 exactly when the match list is empty.
C28_PointerInRange ==
    /\ searchCurrent \in -1..(Len(searchMatches) - 1)
    /\ (searchCurrent = -1) <=> (searchMatches = <<>>)
\* Navigation has moved the pointer to the second of two matches.
C28_Witness ==
    /\ Len(searchMatches) = 2
    /\ searchCurrent = 1
    /\ searchMode # "filter"
    /\ ~searchRe.isNull

\* C29: the tag set is the set of the non-empty tags of the stored
\* entries, and the terminal-count map holds, for exactly the terminals
\* (default 0) of the stored entries, the number of entries of each.
C29_IndicesAgree ==
    /\ tags = {logs[i].tag : i \in {j \in 1..Len(logs) : logs[j].tag # <<>>}}
    /\ DOMAIN terminals = {TermOf(logs[i]) : i \in 1..Len(logs)}
    /\ \A t \in DOMAIN terminals :
          terminals[t] = Cardinality({i \in 1..Len(logs) : TermOf(logs[i]) = t})
\* Two streamed entries on the same terminal, with one tag between them.
C29_Witness ==
    /\ Len(logs) = 2
    /\ feedSeq = 2
    /\ DOMAIN terminals = {0}
    /\ terminals[0] = 2
    /\ tags = {<<"a">>}

\* C30: the ids on the render surface, appended one by one since the last
\* rebuild, are the ids a call of rebuild(logArea) would put there now.
C30_IncrementalIsRebuild == logArea = rebuild(Cur).logArea

====
